---- MODULE Spec2Model ----
(***************************************************************************)
(* Undo/redo command engine of the goal tracker: the day-record store      *)
(* (db.ts), the command catalog (commands.ts) and the HistoryManager       *)
(* (undoRedo.ts).  Notes and checklist items carry the fields the commands *)
(* read or write (id, content/text, completed, order); createdAt/updatedAt *)
(* and the search index are written but never read by the engine and are   *)
(* left out.                                                               *)
(***************************************************************************)
EXTENDS Integers, Sequences, FiniteSets, TLC

\* ---------------------------------------------------------------- bounds
MaxHist     == 2   \* maxHistorySize passed to getHistoryManager ranges over 1..MaxHist
MaxExec     == 3   \* executeCommand calls in a burst of commands
MaxUndo     == 2   \* undo calls in an undo/redo chain
MaxRedo     == 2   \* redo calls in an undo/redo chain
MaxManagers == 3   \* getHistoryManager / switchDate calls in a session that changes dates
MaxClear    == 1   \* clearHistory calls in a session that clears the history
MaxFaults   == 1   \* store failures in a session with failures
MaxBatch    == 2   \* sub-commands of a BatchCommand
MaxStored   == 3   \* entries of a history record found in the store at start

\* ------------------------------------------------------ program constants
MERGE_TIME_WINDOW    == 1000   \* globalConfig.mergeTimeWindow default
EDIT_NOTE_WINDOW     == 2000   \* EditNoteCommand.merge
EDIT_ITEM_WINDOW     == 1500   \* EditChecklistItemCommand.merge
REORDER_WINDOW       == 500    \* ReorderChecklistCommand.merge

\* ------------------------------------------------------------ input sets
Dates     == {"d1", "d2"}
Contents  == {"b", "Buy milk"}
HistSizes == 1..MaxHist

\* the sessions explored: the editor component whose hook drives the manager,
\* the calls one behaviour may make, whether the user acts while the
\* history of a new manager is still loading (race), whether calls are
\* made that the manager turns away at its guard (refuse), the largest
\* stack of a history record that is in the store at start (stored), the
\* number of editor components mounted, each with its own useUndoRedo hook
\* (hooks), whether listeners other than the hook's are added (listen), and
\* whether the commands come in BatchCommands (batch)
Session ==
  [editor |-> "notes", exec |-> 0, undo |-> 0, redo |-> 0, mgr |-> 1, clear |-> 0,
   fault |-> 0, race |-> FALSE, refuse |-> FALSE, stored |-> 0, hooks |-> 1,
   listen |-> FALSE, batch |-> FALSE]

Workloads ==
  { \* a burst of commands in the notes editor
    [Session EXCEPT !.exec = MaxExec, !.undo = 1, !.fault = MaxFaults],
    \* undo/redo chains in either editor
    [Session EXCEPT !.exec = 2, !.undo = MaxUndo, !.redo = MaxRedo],
    [Session EXCEPT !.editor = "checklist", !.exec = 2, !.undo = MaxUndo,
                    !.redo = MaxRedo],
    \* changes of date and of manager
    [Session EXCEPT !.exec = 2, !.mgr = MaxManagers],
    \* a change of date with store failures
    [Session EXCEPT !.exec = 1, !.mgr = 2, !.fault = MaxFaults],
    \* store failures
    [Session EXCEPT !.exec = 2, !.undo = 1, !.redo = 1, !.fault = MaxFaults],
    \* a command after an undo that failed, with a second failure
    [Session EXCEPT !.exec = 2, !.undo = 1, !.fault = MaxFaults + 1],
    \* clearing the history, with store failures
    [Session EXCEPT !.exec = 2, !.undo = 1, !.clear = MaxClear, !.fault = MaxFaults],
    \* commands issued before loadHistory has completed
    [Session EXCEPT !.exec = 2, !.undo = 1, !.redo = 1, !.race = TRUE],
    \* calls made while an operation runs or while there is nothing to undo
    \* or redo
    [Session EXCEPT !.exec = 2, !.undo = 1, !.redo = 1, !.refuse = TRUE],
    \* a history record already in the store, written by an earlier session
    \* or by another version of the application
    [Session EXCEPT !.undo = 1, !.stored = MaxStored],
    \* the notes editor and the checklist editor side by side, each showing
    \* a day of its own choice
    [Session EXCEPT !.mgr = MaxManagers, !.hooks = 2],
    \* listeners of other observers, one of which throws
    [Session EXCEPT !.exec = 1, !.undo = 1, !.redo = 1, !.mgr = 2, !.clear = MaxClear,
                    !.listen = TRUE],
    \* commands submitted in batches, with store failures
    [Session EXCEPT !.exec = 1, !.undo = 1, !.redo = 1, !.fault = MaxFaults,
                    !.batch = TRUE] }

\* globalConfig as set by configureUndoRedo before the first command, and
\* the pace at which the user issues commands (that of the reorder window
\* in the checklist editor only)
Setups ==
  { [enableOptimisticUpdates |-> TRUE,  enablePersistence |-> TRUE,  pace |-> 100],
    [enableOptimisticUpdates |-> TRUE,  enablePersistence |-> TRUE,  pace |-> REORDER_WINDOW],
    [enableOptimisticUpdates |-> TRUE,  enablePersistence |-> TRUE,  pace |-> 1000],
    [enableOptimisticUpdates |-> FALSE, enablePersistence |-> TRUE,  pace |-> 100],
    [enableOptimisticUpdates |-> TRUE,  enablePersistence |-> FALSE, pace |-> 100] }

\* ================================================================= db.ts
\* A day record; exists = FALSE is the absent record (getDayData -> null).
NoDay    == [exists |-> FALSE, notes |-> <<>>, checklist |-> <<>>]
EmptyDay == [exists |-> TRUE,  notes |-> <<>>, checklist |-> <<>>]

RECURSIVE InsertByOrder(_, _)
InsertByOrder(item, s) ==
  IF s = <<>> THEN <<item>>
  ELSE IF item.order < Head(s).order THEN <<item>> \o s
  ELSE <<Head(s)>> \o InsertByOrder(item, Tail(s))

RECURSIVE SortFrom(_, _)
SortFrom(acc, s) ==
  IF s = <<>> THEN acc ELSE SortFrom(InsertByOrder(Head(s), acc), Tail(s))

\* Array.prototype.sort((a, b) => a.order - b.order): stable
SortByOrder(s) == SortFrom(<<>>, s)

\* index of the first element with that id, 0 when there is none (find)
FindIndex(s, id) ==
  IF \E i \in DOMAIN s : s[i].id = id
  THEN CHOOSE i \in DOMAIN s : s[i].id = id /\ \A j \in 1..(i-1) : s[j].id # id
  ELSE 0

Ids(s) == [i \in DOMAIN s |-> s[i].id]

RemoveId(s, id) == SelectSeq(s, LAMBDA e : e.id # id)

MaxOrderOf(s) ==
  IF s = <<>> THEN -1
  ELSE CHOOSE m \in {s[i].order : i \in DOMAIN s} :
         \A i \in DOMAIN s : s[i].order <= m

getDayData(d) ==
  IF d.exists THEN [d EXCEPT !.checklist = SortByOrder(@)] ELSE d

createEmptyDayData == EmptyDay

addNote(d, content, id) ==
  LET dd == IF d.exists THEN getDayData(d) ELSE createEmptyDayData
  IN  [dd EXCEPT !.notes = Append(@, [id |-> id, content |-> content])]

updateNote(d, noteId, content) ==
  IF ~d.exists THEN d
  ELSE LET dd == getDayData(d)
           i  == FindIndex(dd.notes, noteId)
       IN  IF i = 0 THEN d
           ELSE [dd EXCEPT !.notes[i].content = content]

deleteNote(d, noteId) ==
  IF ~d.exists THEN d
  ELSE LET dd == getDayData(d)
       IN  [dd EXCEPT !.notes = RemoveId(@, noteId)]

addChecklistItem(d, text, id) ==
  LET dd   == IF d.exists THEN getDayData(d) ELSE createEmptyDayData
      item == [id |-> id, text |-> text, completed |-> FALSE,
               order |-> MaxOrderOf(dd.checklist) + 1]
  IN  [dd EXCEPT !.checklist = SortByOrder(Append(@, item))]

updateChecklistItemText(d, itemId, text) ==
  IF ~d.exists THEN d
  ELSE LET dd == getDayData(d)
           i  == FindIndex(dd.checklist, itemId)
       IN  IF i = 0 THEN d
           ELSE [dd EXCEPT !.checklist[i].text = text]

updateChecklistItemCompleted(d, itemId, completed) ==
  IF ~d.exists THEN d
  ELSE LET dd == getDayData(d)
           i  == FindIndex(dd.checklist, itemId)
       IN  IF i = 0 THEN d
           ELSE [dd EXCEPT !.checklist[i].completed = completed]

\* itemIds.forEach((id, index) => ...): ids that are not in the record are
\* skipped, the others get order = their 0-based position in itemIds
RECURSIVE ReorderFrom(_, _, _)
ReorderFrom(checklist, itemIds, index) ==
  IF itemIds = <<>> THEN <<>>
  ELSE LET i == FindIndex(checklist, Head(itemIds))
           rest == ReorderFrom(checklist, Tail(itemIds), index + 1)
       IN  IF i = 0 THEN rest
           ELSE <<[checklist[i] EXCEPT !.order = index]>> \o rest

reorderChecklistItems(d, itemIds) ==
  IF ~d.exists THEN d
  ELSE LET dd == getDayData(d)
       IN  [dd EXCEPT !.checklist = ReorderFrom(dd.checklist, itemIds, 0)]

deleteChecklistItem(d, itemId) ==
  IF ~d.exists THEN d
  ELSE LET dd == getDayData(d)
       IN  [dd EXCEPT !.checklist = RemoveId(@, itemId)]

\* =========================================================== commands.ts
\* A command object.  The classes' private fields share slots:
\*   targetId : noteId / itemId (0 is null)
\*   newText  : content / newContent / text / newText
\*   oldText  : oldContent / oldText
\*   deleted  : deletedNote / deletedItem (<<>> is null, else <<snapshot>>)
\*   newOrder, oldOrder : ReorderChecklistCommand
\*   commands, description : BatchCommand
\* BaseCommand's constructor sets id (crypto.randomUUID) and timestamp (new Date).
BaseCommand(type, dateKey, id, ts) ==
  [id |-> id, type |-> type, dateKey |-> dateKey, timestamp |-> ts,
   targetId |-> 0, newText |-> "", oldText |-> "", deleted |-> <<>>,
   newOrder |-> <<>>, oldOrder |-> <<>>, commands |-> <<>>, description |-> ""]

AddNoteCommand(dateKey, content, id, ts) ==
  [BaseCommand("add-note", dateKey, id, ts) EXCEPT !.newText = content]

EditNoteCommand(dateKey, noteId, oldContent, newContent, id, ts) ==
  [BaseCommand("edit-note", dateKey, id, ts) EXCEPT
     !.targetId = noteId, !.oldText = oldContent, !.newText = newContent]

DeleteNoteCommand(dateKey, noteId, id, ts) ==
  [BaseCommand("delete-note", dateKey, id, ts) EXCEPT !.targetId = noteId]

AddChecklistItemCommand(dateKey, text, id, ts) ==
  [BaseCommand("add-checklist-item", dateKey, id, ts) EXCEPT !.newText = text]

EditChecklistItemCommand(dateKey, itemId, oldText, newText, id, ts) ==
  [BaseCommand("edit-checklist-item", dateKey, id, ts) EXCEPT
     !.targetId = itemId, !.oldText = oldText, !.newText = newText]

ToggleChecklistItemCommand(dateKey, itemId, id, ts) ==
  [BaseCommand("toggle-checklist-item", dateKey, id, ts) EXCEPT !.targetId = itemId]

DeleteChecklistItemCommand(dateKey, itemId, id, ts) ==
  [BaseCommand("delete-checklist-item", dateKey, id, ts) EXCEPT !.targetId = itemId]

ReorderChecklistCommand(dateKey, newOrder, id, ts) ==
  [BaseCommand("reorder-checklist", dateKey, id, ts) EXCEPT !.newOrder = newOrder]

BatchCommand(dateKey, commands, description, id, ts) ==
  [BaseCommand("batch", dateKey, id, ts) EXCEPT
     !.commands = commands, !.description = description]

\* the value Array.prototype.pop() returns on an empty array
Undefined == BaseCommand("undefined", "", 0, 0)

RECURSIVE Execute(_, _, _), ExecuteEach(_, _, _), UndoCmd(_, _, _), UndoEach(_, _, _)

\* a loop over sub-commands: the outcome rest of the later iterations with
\* the command of outcome r, run first, put before (after) its commands
Before(r, rest) == [rest EXCEPT !.cmds = <<r.cmd>> \o @]
ThenEach(r, cmds) == Before(r, ExecuteEach(cmds, r.day, r.nid))

\* BatchCommand.execute(): for (const command of this.commands)
\*   await command.execute()
\* The sub-commands act on the day of the batch.
ExecuteEach(cmds, d, nid) ==
  IF cmds = <<>> THEN [day |-> d, cmds |-> <<>>, nid |-> nid]
  ELSE ThenEach(Execute(Head(cmds), d, nid), Tail(cmds))

\* the batch after a loop with outcome r
Batch(cmd, r) ==
  [day |-> r.day, cmd |-> [cmd EXCEPT !.commands = r.cmds], nid |-> r.nid]

\* command.execute(): d is the day record of cmd.dateKey, nid the next id
\* crypto.randomUUID() hands out.  Yields the record, the command object
\* (execute stores what it captures in the command) and the next id.
Execute(cmd, d, nid) ==
  CASE cmd.type = "add-note" ->
         [day |-> addNote(d, cmd.newText, nid),
          cmd |-> [cmd EXCEPT !.targetId = nid], nid |-> nid + 1]
    [] cmd.type = "edit-note" ->
         [day |-> updateNote(d, cmd.targetId, cmd.newText), cmd |-> cmd, nid |-> nid]
    [] cmd.type = "delete-note" ->
         LET dd == getDayData(d)
             i  == IF dd.exists THEN FindIndex(dd.notes, cmd.targetId) ELSE 0
         IN  [day |-> deleteNote(d, cmd.targetId),
              cmd |-> [cmd EXCEPT !.deleted = IF i = 0 THEN <<>> ELSE <<dd.notes[i]>>],
              nid |-> nid]
    [] cmd.type = "add-checklist-item" ->
         [day |-> addChecklistItem(d, cmd.newText, nid),
          cmd |-> [cmd EXCEPT !.targetId = nid], nid |-> nid + 1]
    [] cmd.type = "edit-checklist-item" ->
         [day |-> updateChecklistItemText(d, cmd.targetId, cmd.newText),
          cmd |-> cmd, nid |-> nid]
    [] cmd.type = "toggle-checklist-item" ->
         LET dd == getDayData(d)
             i  == IF dd.exists THEN FindIndex(dd.checklist, cmd.targetId) ELSE 0
         IN  [day |-> IF i = 0 THEN d
                      ELSE updateChecklistItemCompleted(d, cmd.targetId,
                                                        ~dd.checklist[i].completed),
              cmd |-> cmd, nid |-> nid]
    [] cmd.type = "delete-checklist-item" ->
         LET dd == getDayData(d)
             i  == IF dd.exists THEN FindIndex(dd.checklist, cmd.targetId) ELSE 0
         IN  [day |-> deleteChecklistItem(d, cmd.targetId),
              cmd |-> [cmd EXCEPT !.deleted = IF i = 0 THEN <<>> ELSE <<dd.checklist[i]>>],
              nid |-> nid]
    [] cmd.type = "reorder-checklist" ->
         LET dd == getDayData(d)
         IN  [day |-> reorderChecklistItems(d, cmd.newOrder),
              cmd |-> IF dd.exists THEN [cmd EXCEPT !.oldOrder = Ids(dd.checklist)]
                      ELSE cmd,
              nid |-> nid]
    [] cmd.type = "batch" -> Batch(cmd, ExecuteEach(cmd.commands, d, nid))

After(r, rest) == [rest EXCEPT !.cmds = @ \o <<r.cmd>>]
ThenEachBefore(r, cmds) == After(r, UndoEach(cmds, r.day, r.nid))

\* BatchCommand.undo(): for (let i = this.commands.length - 1; i >= 0; i--)
\*   await this.commands[i].undo()
UndoEach(cmds, d, nid) ==
  IF cmds = <<>> THEN [day |-> d, cmds |-> <<>>, nid |-> nid]
  ELSE ThenEachBefore(UndoCmd(cmds[Len(cmds)], d, nid),
                      SubSeq(cmds, 1, Len(cmds) - 1))

\* command.undo()
UndoCmd(cmd, d, nid) ==
  CASE cmd.type = "add-note" ->
         [day |-> IF cmd.targetId # 0 THEN deleteNote(d, cmd.targetId) ELSE d,
          cmd |-> cmd, nid |-> nid]
    [] cmd.type = "edit-note" ->
         [day |-> updateNote(d, cmd.targetId, cmd.oldText), cmd |-> cmd, nid |-> nid]
    [] cmd.type = "delete-note" ->
         IF cmd.deleted # <<>>
         THEN [day |-> addNote(d, cmd.deleted[1].content, nid), cmd |-> cmd,
               nid |-> nid + 1]
         ELSE [day |-> d, cmd |-> cmd, nid |-> nid]
    [] cmd.type = "add-checklist-item" ->
         [day |-> IF cmd.targetId # 0 THEN deleteChecklistItem(d, cmd.targetId) ELSE d,
          cmd |-> cmd, nid |-> nid]
    [] cmd.type = "edit-checklist-item" ->
         [day |-> updateChecklistItemText(d, cmd.targetId, cmd.oldText),
          cmd |-> cmd, nid |-> nid]
    [] cmd.type = "toggle-checklist-item" ->
         LET dd == getDayData(d)
             i  == IF dd.exists THEN FindIndex(dd.checklist, cmd.targetId) ELSE 0
         IN  [day |-> IF i = 0 THEN d
                      ELSE updateChecklistItemCompleted(d, cmd.targetId,
                                                        ~dd.checklist[i].completed),
              cmd |-> cmd, nid |-> nid]
    [] cmd.type = "delete-checklist-item" ->
         IF cmd.deleted # <<>>
         THEN LET added == addChecklistItem(d, cmd.deleted[1].text, nid)
              IN  [day |-> IF cmd.deleted[1].completed
                           THEN updateChecklistItemCompleted(added, nid, TRUE)
                           ELSE added,
                   cmd |-> cmd, nid |-> nid + 1]
         ELSE [day |-> d, cmd |-> cmd, nid |-> nid]
    [] cmd.type = "reorder-checklist" ->
         [day |-> IF Len(cmd.oldOrder) > 0 THEN reorderChecklistItems(d, cmd.oldOrder)
                  ELSE d,
          cmd |-> cmd, nid |-> nid]
    [] cmd.type = "batch" -> Batch(cmd, UndoEach(cmd.commands, d, nid))

\* this.merge(other): <<>> is null, else <<mergedCommand>>; id is the id
\* the merged command's constructor draws.
EditNoteMerge(this, other, id) ==
  IF /\ other.type = "edit-note"
     /\ other.targetId = this.targetId
     /\ other.type = this.type
     /\ other.timestamp - this.timestamp < EDIT_NOTE_WINDOW
  THEN <<EditNoteCommand(this.dateKey, this.targetId, this.oldText, other.newText,
                         id, other.timestamp)>>
  ELSE <<>>

EditChecklistItemMerge(this, other, id) ==
  IF /\ other.type = "edit-checklist-item"
     /\ other.targetId = this.targetId
     /\ other.type = this.type
     /\ other.timestamp - this.timestamp < EDIT_ITEM_WINDOW
  THEN <<EditChecklistItemCommand(this.dateKey, this.targetId, this.oldText,
                                  other.newText, id, other.timestamp)>>
  ELSE <<>>

ReorderChecklistMerge(this, other, id) ==
  IF /\ other.type = "reorder-checklist"
     /\ other.type = this.type
     /\ other.timestamp - this.timestamp < REORDER_WINDOW
  THEN <<[ReorderChecklistCommand(this.dateKey, other.newOrder, id, other.timestamp)
            EXCEPT !.oldOrder = this.oldOrder]>>
  ELSE <<>>

\* a base merge that folds the predecessor into the new command
MergeOfEveryType(this, other, id) ==
  CASE this.type = "edit-note"           -> EditNoteMerge(this, other, id)
    [] this.type = "edit-checklist-item" -> EditChecklistItemMerge(this, other, id)
    [] this.type = "reorder-checklist"   -> ReorderChecklistMerge(this, other, id)
    [] OTHER                             -> <<[this EXCEPT !.id = id]>>

Merge(this, other, id) ==
  CASE this.type = "edit-note"           -> EditNoteMerge(this, other, id)
    [] this.type = "edit-checklist-item" -> EditChecklistItemMerge(this, other, id)
    [] this.type = "reorder-checklist"   -> ReorderChecklistMerge(this, other, id)
    [] OTHER                             -> <<>>   \* BaseCommand.merge

\* Date.toISOString() / new Date(iso)
ToISOString(ts) == <<"iso", ts>>
ParseISO(iso)   == iso[2]

RECURSIVE Serialize(_)

\* cmd.serialize()
Serialize(cmd) ==
  [id |-> cmd.id, type |-> cmd.type, dateKey |-> cmd.dateKey,
   timestamp |-> ToISOString(cmd.timestamp),
   data |->
     CASE cmd.type = "add-note" ->
            [content |-> cmd.newText, noteId |-> cmd.targetId]
       [] cmd.type = "edit-note" ->
            [noteId |-> cmd.targetId, oldContent |-> cmd.oldText,
             newContent |-> cmd.newText]
       [] cmd.type = "delete-note" ->
            [noteId |-> cmd.targetId, deletedNote |-> cmd.deleted]
       [] cmd.type = "add-checklist-item" ->
            [text |-> cmd.newText, itemId |-> cmd.targetId]
       [] cmd.type = "edit-checklist-item" ->
            [itemId |-> cmd.targetId, oldText |-> cmd.oldText, newText |-> cmd.newText]
       [] cmd.type = "toggle-checklist-item" ->
            [itemId |-> cmd.targetId]
       [] cmd.type = "delete-checklist-item" ->
            [itemId |-> cmd.targetId, deletedItem |-> cmd.deleted]
       [] cmd.type = "reorder-checklist" ->
            [newOrder |-> cmd.newOrder, oldOrder |-> cmd.oldOrder]
       [] cmd.type = "batch" ->
            [commands |-> [i \in DOMAIN cmd.commands |-> Serialize(cmd.commands[i])],
             description |-> cmd.description]]

\* the types deserializeCommand reconstructs
CatalogTypes ==
  {"add-note", "edit-note", "delete-note", "add-checklist-item", "edit-checklist-item",
   "toggle-checklist-item", "delete-checklist-item", "reorder-checklist", "batch"}

\* a serialized entry whose data field is undefined: fromSerialized reads
\* data.data.<field> and throws a TypeError
UndefinedData == [undefined |-> TRUE]
FromSerializedThrows(data) == data.data = UndefinedData

RECURSIVE deserializeCommand(_), DeserializeStack(_)

\* deserializeCommand(data): <<>> is null; what fromSerialized throws is
\* caught and gives null
deserializeCommand(data) ==
  LET ts == ParseISO(data.timestamp)
  IN
  IF data.type \in CatalogTypes /\ FromSerializedThrows(data) THEN <<>>
  ELSE
  CASE data.type = "add-note" ->
         <<[AddNoteCommand(data.dateKey, data.data.content, data.id, ts)
              EXCEPT !.targetId = data.data.noteId]>>
    [] data.type = "edit-note" ->
         <<EditNoteCommand(data.dateKey, data.data.noteId, data.data.oldContent,
                           data.data.newContent, data.id, ts)>>
    [] data.type = "delete-note" ->
         <<[DeleteNoteCommand(data.dateKey, data.data.noteId, data.id, ts)
              EXCEPT !.deleted = data.data.deletedNote]>>
    [] data.type = "add-checklist-item" ->
         <<[AddChecklistItemCommand(data.dateKey, data.data.text, data.id, ts)
              EXCEPT !.targetId = data.data.itemId]>>
    [] data.type = "edit-checklist-item" ->
         <<EditChecklistItemCommand(data.dateKey, data.data.itemId, data.data.oldText,
                                    data.data.newText, data.id, ts)>>
    [] data.type = "toggle-checklist-item" ->
         <<ToggleChecklistItemCommand(data.dateKey, data.data.itemId, data.id, ts)>>
    [] data.type = "delete-checklist-item" ->
         <<[DeleteChecklistItemCommand(data.dateKey, data.data.itemId, data.id, ts)
              EXCEPT !.deleted = data.data.deletedItem]>>
    [] data.type = "reorder-checklist" ->
         <<[ReorderChecklistCommand(data.dateKey, data.data.newOrder, data.id, ts)
              EXCEPT !.oldOrder = data.data.oldOrder]>>
    [] data.type = "batch" ->
         <<BatchCommand(data.dateKey, DeserializeStack(data.data.commands),
                        data.data.description, data.id, ts)>>
    [] OTHER -> <<>>

RECURSIVE Flatten(_)
Flatten(ss) == IF ss = <<>> THEN <<>> ELSE Head(ss) \o Flatten(Tail(ss))

\* a load in which a failing entry reaches the catch block of loadHistory
DeserializeAllOrNothing(saved) ==
  IF \E i \in DOMAIN saved : deserializeCommand(saved[i]) = <<>> THEN <<>>
  ELSE Flatten([i \in DOMAIN saved |-> deserializeCommand(saved[i])])

\* stack.map(cmd => cmd.serialize?.()).filter(Boolean)
SerializeStack(stack) == [i \in DOMAIN stack |-> Serialize(stack[i])]

\* savedStack.map(cmdData => deserializeCommand(cmdData)).filter(Boolean)
DeserializeStack(saved) == Flatten([i \in DOMAIN saved |-> deserializeCommand(saved[i])])

\* =========================================================== undoRedo.ts
VARIABLES
  days,                    \* day-record store: date key -> day record
  nextId,                  \* next id crypto.randomUUID() gives a note or item
  nextCmdId,               \* next id crypto.randomUUID() gives a command
  now,                     \* the clock (ms)
  enableOptimisticUpdates, \* globalConfig.enableOptimisticUpdates
  enablePersistence,       \* globalConfig.enablePersistence
  historyDb,               \* durable 'history' object store: date key -> <<>> or <<HistoryState>>
  historyDbInstance,       \* TRUE when historyDbInstance is not null
  isHistoryDBAvailable,
  fallbackHistoryStorage,  \* date key -> <<>> or <<HistoryState>>
  hasManager,              \* globalHistoryManager is not null
  globalHistoryManager,    \* which manager instance it is: the n-th one constructed
  historyManagerRef,       \* per hook: the instance historyManagerRef.current holds
                           \* and the date key the hook's effect ran for
  listeners,               \* the manager's listeners, in insertion order
  undoStack, redoStack, currentDateKey, maxHistorySize, isExecuting,
  inflight,                \* the suspended executeCommand / undo / redo
  loadPending,             \* <<>>, or <<[key, notify]>> while loadHistory awaits the store;
                           \* notify: switchDate awaits it and then notifies the listeners
  facade,                  \* useUndoRedo's canUndo / canRedo state
  calls,                   \* number of calls made so far, per operation
  workload,                \* the session: editor and calls this behaviour may make
  pace,                    \* ms between the creation of two commands
  last,                    \* outcome of the operation that has just completed
  refused,                 \* the call the manager has just turned away at its guard
  sw,                      \* observer of switchDate calls
  heard,                   \* observer of the listeners' invocations
  law, milk, burst, reord, run, pair, trip   \* observers of call sequences

vars == <<days, nextId, nextCmdId, now, enableOptimisticUpdates, enablePersistence,
          historyDb, historyDbInstance, isHistoryDBAvailable, fallbackHistoryStorage,
          hasManager, undoStack, redoStack, currentDateKey, maxHistorySize,
          isExecuting, inflight, loadPending, facade, calls, workload, pace,
          last, refused, sw, law, milk, burst, reord, run, pair, trip,
          globalHistoryManager, historyManagerRef, listeners, heard>>

configVars == <<enableOptimisticUpdates, enablePersistence, workload, pace>>
storeVars  == <<historyDb, historyDbInstance, isHistoryDBAvailable, fallbackHistoryStorage>>
observers  == <<law, milk, burst, reord, run, pair, trip>>
managerVars == <<globalHistoryManager, historyManagerRef, listeners>>

\* ------------------------------------------------------------ persistence
HistoryState(undo, redo, dateKey, maxSize) ==
  [undoStack |-> SerializeStack(undo), redoStack |-> SerializeStack(redo),
   dateKey |-> dateKey, maxHistorySize |-> maxSize]

\* cmd.serialize?.() on an array slot holding undefined is a TypeError
SerializeThrows(undo, redo) ==
  \/ \E i \in DOMAIN undo : undo[i].type = "undefined"
  \/ \E i \in DOMAIN redo : redo[i].type = "undefined"

Store == [db |-> historyDb, open |-> historyDbInstance,
          avail |-> isHistoryDBAvailable, fb |-> fallbackHistoryStorage]

\* initHistoryDB(): openOk says whether openDB resolves
initHistoryDB(st, openOk) ==
  IF openOk THEN [st EXCEPT !.open = TRUE] ELSE [st EXCEPT !.avail = FALSE]

\* a save that returns without writing, whatever the configuration
saveNothing(st, undo, redo, dateKey, maxSize, openOk, putOk) ==
  [st |-> st, threw |-> FALSE, putFailed |-> FALSE]

\* saveHistory(): yields the store, whether the call rejected (threw) and
\* whether the durable put was issued and failed (putFailed)
saveHistory(st, undo, redo, dateKey, maxSize, openOk, putOk) ==
  IF ~enablePersistence THEN [st |-> st, threw |-> FALSE, putFailed |-> FALSE]
  ELSE IF SerializeThrows(undo, redo)
       \* thrown in the try block and again in the catch block
       THEN [st |-> st, threw |-> TRUE, putFailed |-> FALSE]
  ELSE LET state == HistoryState(undo, redo, dateKey, maxSize) IN
       IF ~st.avail
       THEN [st |-> [st EXCEPT !.fb[dateKey] = <<state>>], threw |-> FALSE,
             putFailed |-> FALSE]
       ELSE LET st1 == IF st.open THEN st ELSE initHistoryDB(st, openOk) IN
            IF ~st1.open THEN [st |-> st1, threw |-> FALSE, putFailed |-> FALSE]
            ELSE IF putOk
                 THEN [st |-> [st1 EXCEPT !.db[dateKey] = <<state>>],
                       threw |-> FALSE, putFailed |-> FALSE]
                 \* catch: console.warn, fallbackHistoryStorage.set
                 ELSE [st |-> [st1 EXCEPT !.fb[dateKey] = <<state>>],
                       threw |-> FALSE, putFailed |-> TRUE]

\* a read that tries the durable store whatever isHistoryDBAvailable says
getPersistedRetrying(st, dateKey, openOk, getOk) ==
  LET st1 == IF st.open THEN st ELSE initHistoryDB(st, openOk) IN
  IF ~st1.open THEN [st |-> st1, state |-> <<>>]
  ELSE IF getOk THEN [st |-> st1, state |-> st1.db[dateKey]]
       ELSE [st |-> st1, state |-> st1.fb[dateKey]]

\* getPersistedHistory(dateKey): yields the store and <<>> (null) or <<state>>
getPersistedHistory(st, dateKey, openOk, getOk) ==
  IF ~st.avail THEN [st |-> st, state |-> st.fb[dateKey]]
  ELSE LET st1 == IF st.open THEN st ELSE initHistoryDB(st, openOk) IN
       IF ~st1.open THEN [st |-> st1, state |-> <<>>]
       ELSE IF getOk THEN [st |-> st1, state |-> st1.db[dateKey]]
            ELSE [st |-> st1, state |-> st1.fb[dateKey]]

\* the user acts only when no load is pending, except in a session with races
Settled == workload.race \/ loadPending = <<>>

\* store failures an operation may meet; each uses up one of MaxFaults
CanFail == calls.fault < workload.fault
SaveFaults ==
  IF CanFail /\ enablePersistence /\ isHistoryDBAvailable
  THEN (IF historyDbInstance THEN {"put"} ELSE {"open", "put"}) ELSE {}
LoadFaults ==
  IF CanFail /\ isHistoryDBAvailable
  THEN (IF historyDbInstance THEN {"get"} ELSE {"open", "get"}) ELSE {}
MutationFaults == IF CanFail THEN {"mutation"} ELSE {}
\* the last sub-command of the batch in flight throws, the ones before it
\* having run
BatchFaults ==
  IF CanFail /\ inflight.run # <<>> /\ inflight.run[1].type = "batch"
  THEN {"sub-command"} ELSE {}

SetStore(st) ==
  /\ historyDb' = st.db
  /\ historyDbInstance' = st.open
  /\ isHistoryDBAvailable' = st.avail
  /\ fallbackHistoryStorage' = st.fb

Count(f, op) == calls' = [calls EXCEPT ![op] = @ + 1, !.fault = @ + (IF f = "none" THEN 0 ELSE 1)]

\* --------------------------------------------------------------- observers
NoLast == [op |-> "none", res |-> "none", clean |-> FALSE, merged |-> FALSE,
           cmd |-> <<>>, pred |-> <<>>, putFailed |-> FALSE, daysBefore |-> <<>>,
           afterUndo |-> FALSE, redoLenBefore |-> 0, threw |-> FALSE, before |-> <<>>,
           applied |-> 0, rollbackFailed |-> FALSE]
NoInflight == [op |-> "none", cmd |-> <<>>, run |-> <<>>, pred |-> <<>>,
               merged |-> FALSE, clean |-> TRUE, emptyBefore |-> FALSE,
               afterUndo |-> FALSE, undoLenBefore |-> 0, redoLenBefore |-> 0,
               before |-> <<>>]

\* the stacks at the start of a call, kept to compare them after a failure
StacksNow == <<[undo |-> undoStack, redo |-> redoStack]>>
NoLaw   == [phase |-> 0, pre |-> <<>>, post |-> <<>>]
NoMilk  == [phase |-> 0, date |-> "", id |-> 0]
NoBurst == [phase |-> 0, date |-> "", id |-> 0, pre |-> "", len0 |-> 0, ts |-> 0]
NoReord == [phase |-> 0, date |-> "", abc |-> <<>>, len0 |-> 0, ts |-> 0]
NoRun   == <<>>
NoPair  == [phase |-> 0, type |-> "", date |-> "", id |-> 0, pre |-> "", len0 |-> 0,
            ts |-> 0, delta |-> 0]

NoRefused == [op |-> "none", res |-> "none", busy |-> FALSE, empty |-> FALSE]

\* sw: the keys and the stacks before the switchDate under way or just
\* completed, whether an operation was in flight (idle = FALSE) or a store
\* call failed (faulty) during it or during the switch before it, and prev:
\* the key and stacks the switch before it left
NoSwitch == [state |-> "none", from |-> "", to |-> "", before |-> <<>>,
             idle |-> FALSE, faulty |-> FALSE, prev |-> <<>>]

\* heard: the operation that has just completed, whether it succeeded, the
\* listeners registered when it notified and those it invoked, in order
NoHeard == [op |-> "none", ok |-> FALSE, registered |-> <<>>, invoked |-> <<>>]

\* trip: the undo and redo calls that have succeeded one after the other.
\* snaps holds, for each undo not yet redone, the ids on the two stacks
\* before it and the smallest undo stack reached since (low); prev the ids
\* before the call that has just completed; back the entry of snaps that
\* the redo that has just completed took off
NoTrip == [op |-> "none", snaps |-> <<>>, prev |-> <<>>, back |-> <<>>]

ResetObservers ==
  /\ law' = NoLaw /\ milk' = NoMilk /\ burst' = NoBurst /\ reord' = NoReord
  /\ run' = NoRun /\ pair' = NoPair /\ trip' = NoTrip

\* what the claims compare of a day record: the notes' contents and the
\* checklist's (text, completed) pairs, both in stored order
View(d) == [notes |-> [i \in DOMAIN d.notes |-> d.notes[i].content],
            checklist |-> [i \in DOMAIN d.checklist |->
                             <<d.checklist[i].text, d.checklist[i].completed>>]]
ViewAll(ds) == [k \in Dates |-> View(ds[k])]

\* --------------------------------------------------------- HistoryManager
Top(stack)   == stack[Len(stack)]
Front(stack) == SubSeq(stack, 1, Len(stack) - 1)

\* an entry put under the others (unshift)
PushUnder(stack, cmd) == <<cmd>> \o stack

\* this.redoStack.push(command) in undo, this.undoStack.push(command) in redo
Push(stack, cmd) == Append(stack, cmd)

\* this.undoStack[this.undoStack.length - 1] = cmd
\* the merged command pushed as an entry of its own
PushMerged(stack, cmd) == Append(stack, cmd)

ReplaceTop(stack, cmd) ==
  IF stack = <<>> THEN stack ELSE [stack EXCEPT ![Len(stack)] = cmd]

\* a command object that execute() has written to is the same object in
\* whichever stack holds it
Alias(stack, cmd) ==
  [i \in DOMAIN stack |-> IF stack[i].id = cmd.id THEN cmd ELSE stack[i]]

\* stack.pop(): undefined on an empty array
Pop(stack) ==
  IF stack = <<>> THEN [value |-> Undefined, rest |-> <<>>]
  ELSE [value |-> Top(stack), rest |-> Front(stack)]

\* a trim that drops the newest entry (pop) where the code drops the oldest
TrimNewest(stack, maxSize) ==
  IF Len(stack) > maxSize THEN Front(stack) ELSE stack

\* if (this.undoStack.length > this.maxHistorySize) this.undoStack.shift()
TrimHistory(stack, maxSize) ==
  IF Len(stack) > maxSize THEN Tail(stack) ELSE stack

\* a push that leaves out this.redoStack = []
PushKeepingRedo(undo, redo, cmd, maxSize) ==
  [undo |-> TrimHistory(Append(undo, cmd), maxSize), redo |-> redo]

\* executeCommand: push, clear the redo stack, trim
PushCommand(undo, redo, cmd, maxSize) ==
  [undo |-> TrimHistory(Append(undo, cmd), maxSize), redo |-> <<>>]

\* a window test that admits a difference equal to the window
canMergeAtWindow(lastCmd, current) ==
  /\ lastCmd.type = current.type
  /\ lastCmd.dateKey = current.dateKey
  /\ current.timestamp - lastCmd.timestamp <= MERGE_TIME_WINDOW

canMergeCommands(lastCmd, current) ==
  /\ lastCmd.type = current.type
  /\ lastCmd.dateKey = current.dateKey
  /\ current.timestamp - lastCmd.timestamp < MERGE_TIME_WINDOW

\* the commands the UI builds for the day it shows: text edits carry the
\* stored text as old text and a different new text, a reorder is a
\* permutation of the stored ids other than the stored order
Perms(ids) ==
  {p \in [1..Len(ids) -> {ids[i] : i \in DOMAIN ids}] :
     \A i, j \in 1..Len(ids) : i # j => p[i] # p[j]}

\* the order a drag yields in a list that lacks the last stored item (the
\* component's items state lags behind the store): its first item moved to
\* the end
StaleOrders(ids) ==
  IF Len(ids) < 3 THEN {} ELSE {Tail(Front(ids)) \o <<ids[1]>>}

NoteCommands(dateKey, ts, id) ==
  LET d == getDayData(days[dateKey]) IN
     {AddNoteCommand(dateKey, c, id, ts) : c \in Contents}
  \cup {EditNoteCommand(dateKey, d.notes[x[1]].id, d.notes[x[1]].content, x[2], id, ts) :
          x \in {y \in (DOMAIN d.notes) \X Contents : d.notes[y[1]].content # y[2]}}
  \cup {DeleteNoteCommand(dateKey, d.notes[i].id, id, ts) : i \in DOMAIN d.notes}

ChecklistCommands(dateKey, ts, id) ==
  LET d == getDayData(days[dateKey]) IN
     {AddChecklistItemCommand(dateKey, c, id, ts) : c \in Contents}
  \cup {EditChecklistItemCommand(dateKey, d.checklist[x[1]].id, d.checklist[x[1]].text,
                                 x[2], id, ts) :
          x \in {y \in (DOMAIN d.checklist) \X Contents : d.checklist[y[1]].text # y[2]}}
  \cup {ToggleChecklistItemCommand(dateKey, d.checklist[i].id, id, ts) :
          i \in DOMAIN d.checklist}
  \cup {DeleteChecklistItemCommand(dateKey, d.checklist[i].id, id, ts) :
          i \in DOMAIN d.checklist}
  \cup {ReorderChecklistCommand(dateKey, p, id, ts) :
          p \in (Perms(Ids(d.checklist)) \ {Ids(d.checklist)})
                  \cup StaleOrders(Ids(d.checklist))}

\* the batches a client builds from the commands of the notes editor: the
\* sub-commands are constructed first, all for the day of the batch
BatchCommands(dateKey, ts, id) ==
  {BatchCommand(dateKey, <<x[1], x[2]>>, "batch", id + MaxBatch, ts) :
     x \in NoteCommands(dateKey, ts, id) \X NoteCommands(dateKey, ts, id + 1)}

NewCommands(dateKey, ts, id) ==
  IF workload.batch THEN BatchCommands(dateKey, ts, id)
  ELSE IF workload.editor = "notes" THEN NoteCommands(dateKey, ts, id)
  ELSE ChecklistCommands(dateKey, ts, id)

\* ------------------------------------------------- observers' bookkeeping
\* Each observer follows one call sequence.  op is the operation that has
\* just completed, ok whether it succeeded with no other operation of the
\* manager running in between, orig the command as submitted, done the
\* command after it ran, dBefore the day record before it ran.
HasText(d, text) == \E i \in DOMAIN d.checklist : d.checklist[i].text = text

NoteContent(d, id) ==
  LET i == FindIndex(d.notes, id) IN IF i = 0 THEN <<>> ELSE <<d.notes[i].content>>

\* execute ; undo ; redo
LawNext(op, ok, daysBefore, daysAfter) ==
  IF ~ok THEN NoLaw
  ELSE IF op = "execute"
       THEN [phase |-> 1, pre |-> <<ViewAll(daysBefore)>>, post |-> <<ViewAll(daysAfter)>>]
  ELSE IF op = "undo" /\ law.phase = 1 THEN [law EXCEPT !.phase = 2]
  ELSE IF op = "redo" /\ law.phase = 2 THEN [law EXCEPT !.phase = 3]
  ELSE NoLaw

\* add "Buy milk" ; toggle it ; undo ; undo ; redo ; redo
MilkNext(op, ok, orig, done, dBefore) ==
  IF ~ok THEN NoMilk
  ELSE IF /\ op = "execute" /\ orig.type = "add-checklist-item"
          /\ orig.newText = "Buy milk" /\ ~HasText(dBefore, "Buy milk")
       THEN [phase |-> 1, date |-> orig.dateKey, id |-> done.targetId]
  ELSE IF /\ op = "execute" /\ milk.phase = 1 /\ orig.type = "toggle-checklist-item"
          /\ orig.targetId = milk.id /\ orig.dateKey = milk.date
       THEN [milk EXCEPT !.phase = 2]
  ELSE IF op = "undo" /\ milk.phase \in {2, 3} THEN [milk EXCEPT !.phase = @ + 1]
  ELSE IF op = "redo" /\ milk.phase \in {4, 5} THEN [milk EXCEPT !.phase = @ + 1]
  ELSE NoMilk

\* three edits of one note, each less than 200 ms after the previous one and
\* carrying the stored content as old content ; undo
BurstNext(op, ok, orig, merged, dBefore, lenBefore) ==
  IF ~ok THEN NoBurst
  ELSE IF /\ op = "execute" /\ orig.type = "edit-note" /\ burst.phase \in {1, 2}
          /\ orig.targetId = burst.id /\ orig.dateKey = burst.date
          /\ orig.timestamp - burst.ts < 200
          /\ NoteContent(dBefore, orig.targetId) = <<orig.oldText>>
       THEN [burst EXCEPT !.phase = @ + 1, !.ts = orig.timestamp]
  ELSE IF /\ op = "execute" /\ orig.type = "edit-note" /\ ~merged
          /\ lenBefore < maxHistorySize
          /\ NoteContent(dBefore, orig.targetId) = <<orig.oldText>>
       THEN [phase |-> 1, date |-> orig.dateKey, id |-> orig.targetId,
             pre |-> orig.oldText, len0 |-> lenBefore, ts |-> orig.timestamp]
  ELSE IF op = "undo" /\ burst.phase = 3 THEN [burst EXCEPT !.phase = 4]
  ELSE NoBurst

\* with stored order <<A, B, C>>: reorder to <<C, A, B>> ; reorder to
\* <<B, C, A>> less than 500 ms later ; undo
ReordNext(op, ok, orig, merged, dBefore, lenBefore) ==
  LET ids == Ids(getDayData(dBefore).checklist) IN
  IF ~ok THEN NoReord
  ELSE IF /\ op = "execute" /\ orig.type = "reorder-checklist" /\ reord.phase = 1
          /\ orig.dateKey = reord.date
          /\ orig.timestamp - reord.ts < 500
          /\ orig.newOrder = <<reord.abc[2], reord.abc[3], reord.abc[1]>>
       THEN [reord EXCEPT !.phase = 2, !.ts = orig.timestamp]
  ELSE IF /\ op = "execute" /\ orig.type = "reorder-checklist" /\ ~merged
          /\ lenBefore < maxHistorySize
          /\ Len(ids) = 3 /\ orig.newOrder = <<ids[3], ids[1], ids[2]>>
       THEN [phase |-> 1, date |-> orig.dateKey, abc |-> ids, len0 |-> lenBefore,
             ts |-> orig.timestamp]
  ELSE IF op = "undo" /\ reord.phase = 2 THEN [reord EXCEPT !.phase = 3]
  ELSE NoReord

\* two consecutive text edits of one note or checklist item, the first one
\* pushed as an entry of its own ; undo ; undo
PairNext(op, ok, orig, merged, lenBefore) ==
  IF ~ok THEN NoPair
  ELSE IF /\ op = "execute" /\ pair.phase = 1 /\ orig.type = pair.type
          /\ orig.targetId = pair.id /\ orig.dateKey = pair.date
       THEN [pair EXCEPT !.phase = 2, !.delta = orig.timestamp - pair.ts]
  ELSE IF /\ op = "execute" /\ orig.type \in {"edit-note", "edit-checklist-item"}
          /\ ~merged
       THEN [phase |-> 1, type |-> orig.type, date |-> orig.dateKey,
             id |-> orig.targetId, pre |-> orig.oldText, len0 |-> lenBefore,
             ts |-> orig.timestamp, delta |-> 0]
  ELSE IF op = "undo" /\ pair.phase \in {2, 3} THEN [pair EXCEPT !.phase = @ + 1]
  ELSE NoPair

\* consecutive pushed commands, starting from an empty history
RunNext(op, ok, done, merged, emptyBefore) ==
  IF ok /\ op = "execute" /\ ~merged
  THEN IF emptyBefore THEN <<done.id>>
       ELSE IF run # <<>> THEN Append(run, done.id) ELSE <<>>
  ELSE <<>>

StackIds(stack) == [i \in DOMAIN stack |-> stack[i].id]
Snap(b, low) == [undo |-> StackIds(b.undo), redo |-> StackIds(b.redo), low |-> low]
Lowered(snaps, n) ==
  [i \in DOMAIN snaps |-> [snaps[i] EXCEPT !.low = IF n < @ THEN n ELSE @]]

\* b holds the two stacks as they were when the call began
TripNext(op, ok, b) ==
  IF ~ok \/ op = "execute" THEN NoTrip
  ELSE IF op = "undo"
  THEN [op |-> "undo", prev |-> <<Snap(b, 0)>>, back |-> <<>>,
        snaps |-> Append(Lowered(trip.snaps, Len(b.undo) - 1),
                         Snap(b, Len(b.undo) - 1))]
  ELSE [op |-> "redo", prev |-> <<Snap(b, 0)>>,
        back |-> IF trip.snaps = <<>> THEN <<>> ELSE <<Top(trip.snaps)>>,
        snaps |-> IF trip.snaps = <<>> THEN <<>> ELSE Front(trip.snaps)]

\* ------------------------------------------------------------------- Init
\* entries of a history record found in the store: two written by this
\* catalog, one of a type it does not know, one whose data is missing
StoredKinds == {"add-note", "edit-note", "archive-note", "no-data"}

StoredEntry(kind, i) ==
  LET add  == Serialize([AddNoteCommand("d1", "b", 100 + i, 0) EXCEPT !.targetId = 4])
      edit == Serialize(EditNoteCommand("d1", 4, "a", "b", 100 + i, 0))
  IN  CASE kind = "add-note"     -> add
        [] kind = "edit-note"    -> edit
        [] kind = "archive-note" -> [edit EXCEPT !.type = "archive-note"]
        [] kind = "no-data"      -> [edit EXCEPT !.data = UndefinedData]

\* the history records of d1 with an undo stack of 1..n entries
StoredRecords(n) ==
  {[undoStack |-> [i \in DOMAIN kinds |-> StoredEntry(kinds[i], i)], redoStack |-> <<>>,
    dateKey |-> "d1", maxHistorySize |-> MaxHist] :
     kinds \in UNION {[1..len -> StoredKinds] : len \in 1..n}}

\* a day filled in an earlier session: one note, checklist A, B, C
PopulatedDay ==
  [exists |-> TRUE,
   notes |-> <<[id |-> 4, content |-> "a"]>>,
   checklist |-> <<[id |-> 1, text |-> "A", completed |-> FALSE, order |-> 0],
                   [id |-> 2, text |-> "B", completed |-> TRUE,  order |-> 1],
                   [id |-> 3, text |-> "C", completed |-> FALSE, order |-> 2]>>]

StartDays == {NoDay, PopulatedDay}

Init ==
  /\ days \in {[k \in Dates |-> IF k = "d1" THEN d ELSE NoDay] : d \in StartDays}
  /\ nextId = 5
  /\ nextCmdId = 1
  /\ now = 0
  /\ \E setup \in Setups :
       /\ enableOptimisticUpdates = setup.enableOptimisticUpdates
       /\ enablePersistence = setup.enablePersistence
       /\ pace = setup.pace
  /\ workload \in Workloads
  /\ pace = REORDER_WINDOW => workload.editor = "checklist"
  /\ historyDb \in
       IF workload.stored = 0 THEN {[k \in Dates |-> <<>>]}
       ELSE {[k \in Dates |-> IF k = "d1" THEN <<rec>> ELSE <<>>] :
               rec \in StoredRecords(workload.stored)}
  /\ historyDbInstance = FALSE
  /\ isHistoryDBAvailable = TRUE
  /\ fallbackHistoryStorage = [k \in Dates |-> <<>>]
  /\ hasManager = FALSE
  /\ globalHistoryManager = 0
  /\ historyManagerRef = [h \in {"notes", "checklist"} |-> [mgr |-> 0, key |-> ""]]
  /\ listeners = <<>>
  /\ heard = NoHeard
  /\ undoStack = <<>>
  /\ redoStack = <<>>
  /\ currentDateKey = ""
  /\ maxHistorySize = 0
  /\ isExecuting = FALSE
  /\ inflight = NoInflight
  /\ loadPending = <<>>
  /\ facade = [canUndo |-> FALSE, canRedo |-> FALSE]
  /\ calls = [exec |-> 0, undo |-> 0, redo |-> 0, mgr |-> 0, clear |-> 0, fault |-> 0]
  /\ last = NoLast
  /\ law = NoLaw /\ milk = NoMilk /\ burst = NoBurst /\ reord = NoReord /\ run = NoRun
  /\ pair = NoPair
  /\ trip = NoTrip
  /\ refused = NoRefused
  /\ sw = NoSwitch

\* ------------------------------------------------------------- listeners
\* the hooks mounted: one per editor component
Hooks == IF workload.hooks = 2 THEN {"notes", "checklist"} ELSE {workload.editor}

\* the updateState closure a hook's effect registers
HookListener(hook) == [id |-> hook, throws |-> FALSE]

\* listeners of other observers of the manager
OtherListeners == {[id |-> "plain", throws |-> FALSE], [id |-> "thrower", throws |-> TRUE]}

\* a forEach without the try/catch: the first exception ends the iteration
RECURSIVE notifyUntilThrow(_)
notifyUntilThrow(ls) ==
  IF ls = <<>> THEN <<>>
  ELSE IF Head(ls).throws THEN <<Head(ls).id>>
  ELSE <<Head(ls).id>> \o notifyUntilThrow(Tail(ls))

\* notifyListeners(): the listeners invoked, in order; what a listener
\* throws is caught and logged
RECURSIVE notifyListeners(_)
notifyListeners(ls) ==
  IF ls = <<>> THEN <<>> ELSE <<Head(ls).id>> \o notifyListeners(Tail(ls))

Heard(op, ok, notified) ==
  [op |-> op, ok |-> ok, registered |-> listeners,
   invoked |-> IF notified THEN notifyListeners(listeners) ELSE <<>>]

\* this.listeners.add(listener) / this.listeners.delete(listener)
SetAdd(ls, l) == IF \E i \in DOMAIN ls : ls[i] = l THEN ls ELSE Append(ls, l)
SetDelete(ls, l) == SelectSeq(ls, LAMBDA x : x # l)

\* ------------------------------------------------- loadHistory, switchDate
\* HistoryManager.canUndo() / canRedo()
canUndo(undo, executing) == Len(undo) > 0 /\ ~executing
canRedo(redo, executing) == Len(redo) > 0 /\ ~executing

\* the listener useUndoRedo registers: setCanUndo(historyManager.canUndo()),
\* setCanRedo(historyManager.canRedo())
updateState(undo, redo, executing) ==
  [canUndo |-> canUndo(undo, executing), canRedo |-> canRedo(redo, executing)]

Hydrate(state) ==
  IF state = <<>> THEN [undo |-> <<>>, redo |-> <<>>]
  ELSE [undo |-> DeserializeStack(state[1].undoStack),
        redo |-> DeserializeStack(state[1].redoStack)]

\* what any other operation of the manager does to the suspended one and to
\* the observers
Disturb ==
  /\ inflight' = IF inflight.op = "none" THEN inflight ELSE [inflight EXCEPT !.clean = FALSE]
  /\ last' = NoLast
  /\ refused' = NoRefused
  /\ ResetObservers

\* loadHistory() up to its first await: with persistence disabled, or with
\* the in-memory fallback, it finishes before any other task runs
StartLoad(st, dateKey, notify) ==
  IF ~enablePersistence
  THEN /\ undoStack' = <<>> /\ redoStack' = <<>> /\ loadPending' = <<>>
       /\ SetStore(st)
  ELSE IF ~st.avail
  THEN LET r == getPersistedHistory(st, dateKey, TRUE, TRUE) IN
       /\ undoStack' = Hydrate(r.state).undo
       /\ redoStack' = Hydrate(r.state).redo
       /\ loadPending' = <<>>
       /\ SetStore(r.st)
  ELSE /\ undoStack' = <<>> /\ redoStack' = <<>>
       /\ loadPending' = <<[key |-> dateKey, notify |-> notify]>>
       /\ SetStore(st)

\* the effect of useUndoRedo in one of the hooks: getHistoryManager(dateKey,
\* maxHistorySize), which builds a new manager (new HistoryManager:
\* constructor, loadHistory not awaited) unless the global one is bound to
\* dateKey; the hook keeps the manager in historyManagerRef, runs
\* updateState() on it and registers updateState as listener, after the
\* cleanup of its previous run has removed it
GetHistoryManager ==
  /\ inflight.op = "none"
  /\ Settled
  /\ \E hook \in Hooks, dateKey \in Dates, maxSize \in HistSizes :
       /\ IF ~hasManager \/ currentDateKey # dateKey
          THEN /\ calls.mgr < workload.mgr
               /\ hasManager' = TRUE
               /\ globalHistoryManager' = globalHistoryManager + 1
               /\ currentDateKey' = dateKey
               /\ maxHistorySize' = maxSize
               /\ isExecuting' = FALSE
               /\ StartLoad(Store, dateKey, FALSE)
               /\ listeners' = <<HookListener(hook)>>
               /\ facade' = IF hook = workload.editor THEN updateState(<<>>, <<>>, FALSE)
                            ELSE facade
               /\ Count("none", "mgr")
               /\ sw' = NoSwitch
               /\ heard' = NoHeard
               /\ Disturb
          ELSE \* the effect runs when the hook mounts or its dateKey changes
               /\ historyManagerRef[hook] # [mgr |-> globalHistoryManager, key |-> dateKey]
               /\ listeners' = SetAdd(SetDelete(listeners, HookListener(hook)),
                                      HookListener(hook))
               /\ facade' = IF hook = workload.editor
                            THEN updateState(undoStack, redoStack, isExecuting)
                            ELSE facade
               /\ UNCHANGED <<hasManager, globalHistoryManager, currentDateKey,
                              maxHistorySize, isExecuting, undoStack, redoStack,
                              loadPending, storeVars, calls, inflight, last, refused,
                              sw, heard, observers>>
       /\ historyManagerRef' =
            [historyManagerRef EXCEPT ![hook] = [mgr |-> globalHistoryManager',
                                                 key |-> dateKey]]
  /\ UNCHANGED <<days, nextId, nextCmdId, now, configVars>>

\* addListener(listener) by another observer of the manager; the one that
\* throws subscribes first
AddListener ==
  /\ hasManager
  /\ workload.listen
  /\ inflight.op = "none"
  /\ \E l \in {x \in OtherListeners : x.throws \/ Len(listeners) > 1} :
       /\ listeners' = SetAdd(listeners, l)
       /\ listeners' # listeners
  /\ UNCHANGED <<days, nextId, nextCmdId, now, configVars, storeVars, hasManager,
                 globalHistoryManager, historyManagerRef, undoStack, redoStack,
                 currentDateKey, maxHistorySize, isExecuting, inflight, loadPending,
                 facade, calls, last, refused, sw, heard, observers>>

\* loadHistory() after await getPersistedHistory(...)
LoadComplete ==
  /\ loadPending # <<>>
  /\ \E f \in {"none"} \cup LoadFaults :
       LET r == getPersistedHistory(Store, loadPending[1].key, f # "open", f # "get") IN
       /\ undoStack' = Hydrate(r.state).undo
       /\ redoStack' = Hydrate(r.state).redo
       /\ SetStore(r.st)
       /\ facade' = IF loadPending[1].notify
                    THEN updateState(Hydrate(r.state).undo, Hydrate(r.state).redo,
                                     isExecuting)
                    ELSE facade
       /\ sw' = IF loadPending[1].notify /\ sw.state = "pending"
                THEN [sw EXCEPT !.state = "done", !.faulty = @ \/ f # "none",
                                !.idle = @ /\ inflight.op = "none"]
                ELSE NoSwitch
       /\ calls' = [calls EXCEPT !.fault = @ + (IF f = "none" THEN 0 ELSE 1)]
       /\ last' = [NoLast EXCEPT !.op = "load",
                                 !.res = IF f = "none" THEN "ok" ELSE "fault"]
       /\ heard' = IF loadPending[1].notify THEN Heard("switch", TRUE, TRUE) ELSE NoHeard
  /\ loadPending' = <<>>
  /\ inflight' = IF inflight.op = "none" THEN inflight ELSE [inflight EXCEPT !.clean = FALSE]
  /\ refused' = NoRefused
  /\ ResetObservers
  /\ UNCHANGED <<days, nextId, nextCmdId, now, configVars, hasManager, managerVars,
                 currentDateKey, maxHistorySize, isExecuting>>

\* switchDate(dateKey)
SwitchDate ==
  /\ hasManager
  /\ loadPending = <<>>
  /\ calls.mgr < workload.mgr
  /\ \E dateKey \in Dates \ {currentDateKey}, f \in {"none"} \cup SaveFaults :
       LET sv == saveHistory(Store, undoStack, redoStack, currentDateKey,
                             maxHistorySize, f # "open", f # "put") IN
       /\ Count(f, "mgr")
       /\ IF sv.threw
          THEN /\ UNCHANGED <<undoStack, redoStack, currentDateKey, loadPending,
                              storeVars, facade>>
               /\ sw' = NoSwitch
               /\ heard' = Heard("switch", FALSE, FALSE)
          ELSE /\ currentDateKey' = dateKey
               /\ StartLoad(sv.st, dateKey, TRUE)
               /\ facade' = IF loadPending' = <<>>
                            THEN updateState(undoStack', redoStack', isExecuting)
                            ELSE facade
               /\ heard' = IF loadPending' = <<>> THEN Heard("switch", TRUE, TRUE)
                           ELSE NoHeard
               /\ sw' = [state |-> IF loadPending' = <<>> THEN "done" ELSE "pending",
                         from |-> currentDateKey, to |-> dateKey,
                         before |-> StacksNow,
                         idle |-> (inflight.op = "none"),
                         faulty |-> (f # "none" \/ (sw.state = "done" /\ sw.faulty)),
                         prev |-> IF sw.state = "done" /\ sw.idle
                                  THEN <<[key |-> sw.from, stacks |-> sw.before[1]]>>
                                  ELSE <<>>]
  /\ Disturb
  /\ UNCHANGED <<days, nextId, nextCmdId, now, configVars, hasManager, managerVars,
                 maxHistorySize, isExecuting>>

\* clearHistory()
ClearHistory ==
  /\ hasManager
  /\ Settled
  /\ calls.clear < workload.clear
  /\ \E f \in {"none"} \cup SaveFaults :
       LET sv == saveHistory(Store, <<>>, <<>>, currentDateKey, maxHistorySize,
                             f # "open", f # "put") IN
       /\ SetStore(sv.st)
       /\ Count(f, "clear")
  /\ undoStack' = <<>>
  /\ redoStack' = <<>>
  /\ facade' = updateState(<<>>, <<>>, isExecuting)
  /\ sw' = NoSwitch
  /\ heard' = Heard("clear", TRUE, TRUE)
  /\ Disturb
  /\ UNCHANGED <<days, nextId, nextCmdId, now, configVars, hasManager, managerVars,
                 currentDateKey, maxHistorySize, isExecuting, loadPending>>

\* ------------------------------------------------- mutation call sites
\* the outcome r of a call of a mutation, as the n-th call made
Called(r, n, flag) ==
  [day |-> r.day, cmd |-> r.cmd, nid |-> r.nid, calls |-> n,
   optimisticUpdateApplied |-> flag]

\* if (globalConfig.enableOptimisticUpdates) { await command.execute();
\*                                             optimisticUpdateApplied = true }
OptimisticExecute(cmd, d, nid) ==
  IF enableOptimisticUpdates THEN Called(Execute(cmd, d, nid), 1, TRUE)
  ELSE Called([day |-> d, cmd |-> cmd, nid |-> nid], 0, FALSE)

\* a second call of command.execute() made whatever the flag says
DeferredExecuteAlways(r) == Called(Execute(r.cmd, r.day, r.nid), r.calls + 1, FALSE)

\* if (!optimisticUpdateApplied) { await command.execute() }
DeferredExecute(r) ==
  IF ~r.optimisticUpdateApplied
  THEN Called(Execute(r.cmd, r.day, r.nid), r.calls + 1, FALSE)
  ELSE r

\* the two call sites of command.execute() in executeCommand and redo, the
\* stack bookkeeping between them left out: the record, the command, the next
\* id and the number of calls made
ExecuteCalls(cmd, d, nid) == DeferredExecute(OptimisticExecute(cmd, d, nid))

\* if (globalConfig.enableOptimisticUpdates) { await command.undo();
\*                                             optimisticUndoApplied = true }
OptimisticUndo(cmd, d, nid) ==
  IF enableOptimisticUpdates THEN Called(UndoCmd(cmd, d, nid), 1, TRUE)
  ELSE Called([day |-> d, cmd |-> cmd, nid |-> nid], 0, FALSE)

\* if (!optimisticUndoApplied) { await command.undo() }
DeferredUndo(r) ==
  IF ~r.optimisticUpdateApplied
  THEN Called(UndoCmd(r.cmd, r.day, r.nid), r.calls + 1, FALSE)
  ELSE r

\* the two call sites of command.undo() in undo
UndoCalls(cmd, d, nid) == DeferredUndo(OptimisticUndo(cmd, d, nid))

\* a finally block that is skipped when the rollback has failed
FinallyButAfterFailedRollback(res, f) == f = "rollback"

\* a reset of isExecuting placed at the end of the try block
ResetAtEndOfTry(res, f) == res # "ok"

\* finally { this.isExecuting = false }: the value of isExecuting once the
\* call has settled with result res after meeting failure f
Finally(res, f) == FALSE

\* the failure of the compensating mutation, possible where an outcome
\* without it is a rollback (the listeners notified, the call rejected)
RollbackFaults(o) ==
  IF CanFail /\ o.res # "ok" /\ o.notified THEN {"rollback"} ELSE {}

\* --------------------------------------------------------- executeCommand
\* executeCommand(command) up to its first await: the guard, the merge
\* decision and, without optimistic updates, the stack bookkeeping
ExecuteCommandBegin ==
  /\ hasManager
  /\ Settled
  /\ ~isExecuting
  /\ calls.exec < workload.exec
  /\ \E delta \in {pace} :
     \E command \in NewCommands(currentDateKey, now + delta, nextCmdId) :
       LET lastCommand == IF undoStack = <<>> THEN <<>> ELSE <<Top(undoStack)>>
           mergedCommand ==
             IF /\ lastCommand # <<>>
                /\ lastCommand[1].type # "undefined"
                /\ canMergeCommands(lastCommand[1], command)
             THEN Merge(command, lastCommand[1], nextCmdId + 1)
             ELSE <<>>
           isMerge == mergedCommand # <<>>
           pushed  == PushCommand(undoStack, redoStack, command, maxHistorySize)
       IN
       /\ now' = now + delta
       /\ nextCmdId' = nextCmdId + (IF isMerge THEN 2 ELSE 1) + Len(command.commands)
       /\ inflight' = [op |-> "execute", cmd |-> <<command>>,
                       run |-> IF isMerge THEN mergedCommand ELSE <<command>>,
                       pred |-> IF isMerge THEN lastCommand ELSE <<>>,
                       merged |-> isMerge, clean |-> (loadPending = <<>>),
                       emptyBefore |-> (undoStack = <<>> /\ redoStack = <<>>
                                          /\ loadPending = <<>>),
                       afterUndo |-> (last.op = "undo" /\ last.res = "ok" /\ last.clean),
                       undoLenBefore |-> Len(undoStack),
                       redoLenBefore |-> Len(redoStack),
                       before |-> StacksNow]
       /\ IF enableOptimisticUpdates
          THEN UNCHANGED <<undoStack, redoStack>>
          ELSE IF isMerge
               THEN /\ undoStack' = ReplaceTop(undoStack, mergedCommand[1])
                    /\ UNCHANGED redoStack
               ELSE /\ undoStack' = pushed.undo
                    /\ redoStack' = pushed.redo
  /\ isExecuting' = TRUE
  /\ calls' = [calls EXCEPT !.exec = @ + 1]
  /\ last' = NoLast
  /\ refused' = NoRefused
  /\ sw' = NoSwitch
  /\ heard' = NoHeard
  /\ UNCHANGED <<days, nextId, configVars, storeVars,
                 hasManager, managerVars, currentDateKey,
                 maxHistorySize, loadPending, facade, observers>>

\* a guard placed inside the try block, whose finally resets isExecuting
ExecuteCommandBusyInTry ==
  /\ hasManager
  /\ workload.refuse
  /\ isExecuting
  /\ refused' = [op |-> "execute", res |-> "UndoRedoError", busy |-> TRUE,
                 empty |-> (undoStack = <<>>)]
  /\ isExecuting' = FALSE
  /\ UNCHANGED <<days, nextId, nextCmdId, now, configVars, storeVars,
                 hasManager, managerVars,
                 undoStack, redoStack, currentDateKey, maxHistorySize,
                 inflight, loadPending, facade, calls, last, sw, heard, observers>>

\* executeCommand(command) while isExecuting: throws UndoRedoError before
\* the try block, so the finally block does not run
ExecuteCommandBusy ==
  /\ hasManager
  /\ workload.refuse
  /\ isExecuting
  /\ refused' = [op |-> "execute", res |-> "UndoRedoError", busy |-> TRUE,
                 empty |-> (undoStack = <<>>)]
  /\ UNCHANGED <<days, nextId, nextCmdId, now, configVars, storeVars,
                 hasManager, managerVars,
                 undoStack, redoStack, currentDateKey, maxHistorySize, isExecuting,
                 inflight, loadPending, facade, calls, last, sw, heard, observers>>

\* the outcome of a call whose command.execute() threw after the loop of a
\* batch had come to outcome r
Partial(same, c, r) ==
  [same EXCEPT !.days = [days EXCEPT ![c.dateKey] = r.day], !.nid = r.nid]

\* the rest of executeCommand: f is the store failure met, if any
ExecuteOutcome(f) ==
  LET c    == inflight.run[1]
      ex   == ExecuteCalls(c, days[c.dateKey], nextId)
      c1   == ex.cmd
      days1 == [days EXCEPT ![c.dateKey] = ex.day]
      same == [days |-> days, nid |-> nextId, undo |-> undoStack, redo |-> redoStack,
               st |-> Store, res |-> "CommandExecutionError", putFailed |-> FALSE,
               done |-> c, notified |-> FALSE, applied |-> 0]
  IN
  IF f = "mutation" THEN same
  ELSE IF f = "sub-command"
  THEN Partial(same, c, ExecuteEach(Front(c.commands), days[c.dateKey], nextId))
  ELSE IF inflight.merged
  THEN LET undo1 == IF enableOptimisticUpdates THEN ReplaceTop(undoStack, c1)
                    ELSE Alias(undoStack, c1)
           redo1 == Alias(redoStack, c1)
           sv == saveHistory(Store, undo1, redo1, currentDateKey, maxHistorySize,
                             f # "open", f # "put")
       IN [days |-> days1, nid |-> ex.nid, undo |-> undo1, redo |-> redo1,
           st |-> sv.st, putFailed |-> sv.putFailed, done |-> c1,
           notified |-> ~sv.threw, applied |-> ex.calls,
           res |-> IF ~sv.threw THEN "ok"
                   ELSE IF enableOptimisticUpdates THEN "Error"
                   ELSE "CommandExecutionError"]
  ELSE IF enableOptimisticUpdates
  THEN LET pushed == PushCommand(undoStack, redoStack, c1, maxHistorySize)
           sv == saveHistory(Store, pushed.undo, pushed.redo, currentDateKey,
                             maxHistorySize, f # "open", f # "put")
           rb == UndoCmd(c1, ex.day, ex.nid)
       IN IF sv.threw /\ f = "rollback"
          THEN \* command.undo() throws: logged, the entry stays on the stack
               [days |-> days1, nid |-> ex.nid, undo |-> pushed.undo,
                redo |-> pushed.redo, st |-> sv.st, putFailed |-> sv.putFailed,
                done |-> c1, notified |-> FALSE, applied |-> ex.calls,
                res |-> "PersistenceError"]
          ELSE IF sv.threw
          THEN \* rollback: command.undo(), this.undoStack.pop()
               [days |-> [days EXCEPT ![c.dateKey] = rb.day], nid |-> rb.nid,
                undo |-> Pop(pushed.undo).rest, redo |-> pushed.redo,
                st |-> sv.st, putFailed |-> sv.putFailed, done |-> c1,
                notified |-> TRUE, applied |-> ex.calls, res |-> "PersistenceError"]
          ELSE [days |-> days1, nid |-> ex.nid, undo |-> pushed.undo,
                redo |-> pushed.redo, st |-> sv.st, putFailed |-> sv.putFailed,
                done |-> c1, notified |-> TRUE, applied |-> ex.calls, res |-> "ok"]
  ELSE LET undo1 == Alias(undoStack, c1)
           redo1 == Alias(redoStack, c1)
           sv == saveHistory(Store, undo1, redo1, currentDateKey, maxHistorySize,
                             f # "open", f # "put")
       IN [days |-> days1, nid |-> ex.nid, undo |-> undo1, redo |-> redo1,
           st |-> sv.st, putFailed |-> sv.putFailed, done |-> c1,
           notified |-> ~sv.threw, applied |-> ex.calls,
           res |-> IF sv.threw THEN "CommandExecutionError" ELSE "ok"]

ExecuteCommandComplete ==
  /\ inflight.op = "execute"
  /\ \E f \in {"none"} \cup MutationFaults \cup BatchFaults \cup SaveFaults
                     \cup RollbackFaults(ExecuteOutcome("none")) :
     \E o \in {ExecuteOutcome(f)} :
       LET orig == inflight.cmd[1]
           ok   == o.res = "ok" /\ inflight.clean
           dBefore == days[orig.dateKey]
       IN
       /\ days' = o.days
       /\ nextId' = o.nid
       /\ undoStack' = o.undo
       /\ redoStack' = o.redo
       /\ SetStore(o.st)
       /\ facade' = IF o.notified THEN updateState(o.undo, o.redo, isExecuting)
                    ELSE facade
       /\ calls' = [calls EXCEPT !.fault = @ + (IF f = "none" THEN 0 ELSE 1)]
       /\ last' = [op |-> "execute", res |-> o.res, clean |-> inflight.clean,
                   merged |-> inflight.merged, cmd |-> inflight.cmd, pred |-> inflight.pred,
                   putFailed |-> o.putFailed,
                   daysBefore |-> IF o.putFailed \/ f = "sub-command"
                                  THEN <<ViewAll(days)>> ELSE <<>>,
                   afterUndo |-> inflight.afterUndo,
                   redoLenBefore |-> inflight.redoLenBefore,
                   threw |-> (f \in {"mutation", "sub-command"}),
                   before |-> inflight.before,
                   applied |-> o.applied, rollbackFailed |-> (f = "rollback")]
       /\ isExecuting' = Finally(o.res, f)
       /\ law' = LawNext("execute", ok, days, o.days)
       /\ milk' = MilkNext("execute", ok, orig, o.done, dBefore)
       /\ burst' = BurstNext("execute", ok, orig, inflight.merged, dBefore,
                             inflight.undoLenBefore)
       /\ reord' = ReordNext("execute", ok, orig, inflight.merged, dBefore,
                             inflight.undoLenBefore)
       /\ run' = RunNext("execute", ok, o.done, inflight.merged, inflight.emptyBefore)
       /\ heard' = Heard("execute", o.res = "ok", o.notified)
       /\ pair' = PairNext("execute", ok, orig, inflight.merged, inflight.undoLenBefore)
       /\ trip' = TripNext("execute", ok, inflight.before[1])
  /\ inflight' = NoInflight
  /\ refused' = NoRefused
  /\ sw' = NoSwitch
  /\ UNCHANGED <<nextCmdId, now, configVars, hasManager, managerVars, currentDateKey,
                 maxHistorySize, loadPending>>

\* ------------------------------------------------------------ undo, redo
\* a guard that notifies the listeners before it returns false
UndoRefusedNotifying ==
  /\ hasManager
  /\ workload.refuse
  /\ Len(undoStack) = 0 \/ isExecuting
  /\ refused' = [op |-> "undo", res |-> "false", busy |-> isExecuting,
                 empty |-> (undoStack = <<>>)]
  /\ facade' = updateState(undoStack, redoStack, isExecuting)
  /\ UNCHANGED <<days, nextId, nextCmdId, now, configVars, storeVars,
                 hasManager, managerVars,
                 undoStack, redoStack, currentDateKey, maxHistorySize, isExecuting,
                 inflight, loadPending, calls, last, sw, heard, observers>>

\* undo() when the undo stack is empty or isExecuting: return false
UndoRefused ==
  /\ hasManager
  /\ workload.refuse
  /\ Len(undoStack) = 0 \/ isExecuting
  /\ refused' = [op |-> "undo", res |-> "false", busy |-> isExecuting,
                 empty |-> (undoStack = <<>>)]
  /\ UNCHANGED <<days, nextId, nextCmdId, now, configVars, storeVars,
                 hasManager, managerVars,
                 undoStack, redoStack, currentDateKey, maxHistorySize, isExecuting,
                 inflight, loadPending, facade, calls, last, sw, heard, observers>>

\* redo() when the redo stack is empty or isExecuting: return false
RedoRefused ==
  /\ hasManager
  /\ workload.refuse
  /\ Len(redoStack) = 0 \/ isExecuting
  /\ refused' = [op |-> "redo", res |-> "false", busy |-> isExecuting,
                 empty |-> (redoStack = <<>>)]
  /\ UNCHANGED <<days, nextId, nextCmdId, now, configVars, storeVars,
                 hasManager, managerVars,
                 undoStack, redoStack, currentDateKey, maxHistorySize, isExecuting,
                 inflight, loadPending, facade, calls, last, sw, heard, observers>>

\* undo() up to its first await: the guard, the pop and, without optimistic
\* updates, the push on the redo stack
UndoBegin ==
  /\ hasManager
  /\ Settled
  /\ Len(undoStack) # 0 /\ ~isExecuting
  /\ calls.undo < workload.undo
  /\ LET command == Top(undoStack) IN
       /\ inflight' = [NoInflight EXCEPT !.op = "undo", !.cmd = <<command>>,
                                         !.run = <<command>>,
                                         !.clean = (loadPending = <<>>),
                                         !.before = StacksNow]
       /\ undoStack' = Front(undoStack)
       /\ redoStack' = IF enableOptimisticUpdates THEN redoStack
                       ELSE Push(redoStack, command)
  /\ isExecuting' = TRUE
  /\ calls' = [calls EXCEPT !.undo = @ + 1]
  /\ last' = NoLast
  /\ refused' = NoRefused
  /\ sw' = NoSwitch
  /\ heard' = NoHeard
  /\ UNCHANGED <<days, nextId, nextCmdId, now, configVars, storeVars,
                 hasManager, managerVars,
                 currentDateKey, maxHistorySize, loadPending, facade, observers>>

\* this.undoStack.push(this.redoStack.pop()!)
MoveTop(from, to) == [from |-> Pop(from).rest, to |-> Append(to, Pop(from).value)]

UndoOutcome(f) ==
  LET c == inflight.cmd[1]
      throws == c.type = "undefined" \/ f = "mutation"
      back == MoveTop(redoStack, undoStack)
      failed == [days |-> days, nid |-> nextId, undo |-> back.to, redo |-> back.from,
                 st |-> Store, res |-> "CommandExecutionError", putFailed |-> FALSE,
                 notified |-> FALSE, applied |-> 0]
  IN
  IF throws THEN failed
  ELSE
  LET un    == UndoCalls(c, days[c.dateKey], nextId)
      days1 == [days EXCEPT ![c.dateKey] = un.day]
      redo1 == IF enableOptimisticUpdates THEN Push(redoStack, c) ELSE redoStack
      sv    == saveHistory(Store, undoStack, redo1, currentDateKey, maxHistorySize,
                           f # "open", f # "put")
      re    == Execute(c, un.day, un.nid)       \* re-execute to roll back
      back1 == MoveTop(redo1, undoStack)
  IN
  IF ~sv.threw
  THEN [days |-> days1, nid |-> un.nid, undo |-> undoStack, redo |-> redo1,
        st |-> sv.st, res |-> "ok", putFailed |-> sv.putFailed, notified |-> TRUE,
        applied |-> un.calls]
  ELSE IF enableOptimisticUpdates /\ f = "rollback"
  THEN \* command.execute() throws: logged, the stacks stay as they are
       [days |-> days1, nid |-> un.nid, undo |-> undoStack, redo |-> redo1,
        st |-> sv.st, res |-> "CommandExecutionError", putFailed |-> sv.putFailed,
        notified |-> FALSE, applied |-> un.calls]
  ELSE IF enableOptimisticUpdates
  THEN [days |-> [days EXCEPT ![c.dateKey] = re.day], nid |-> re.nid,
        undo |-> Alias(back1.to, re.cmd), redo |-> Alias(back1.from, re.cmd),
        st |-> sv.st, res |-> "CommandExecutionError", putFailed |-> sv.putFailed,
        notified |-> TRUE, applied |-> un.calls]
  ELSE [days |-> days1, nid |-> un.nid, undo |-> back1.to, redo |-> back1.from,
        st |-> sv.st, res |-> "CommandExecutionError", putFailed |-> sv.putFailed,
        notified |-> FALSE, applied |-> un.calls]

UndoComplete ==
  /\ inflight.op = "undo"
  /\ \E f \in {"none"} \cup (IF inflight.cmd[1].type = "undefined" THEN {}
                             ELSE MutationFaults \cup SaveFaults
                                    \cup RollbackFaults(UndoOutcome("none"))) :
     \E o \in {UndoOutcome(f)} :
       LET ok == o.res = "ok" /\ inflight.clean IN
       /\ days' = o.days
       /\ nextId' = o.nid
       /\ undoStack' = o.undo
       /\ redoStack' = o.redo
       /\ SetStore(o.st)
       /\ facade' = IF o.notified THEN updateState(o.undo, o.redo, isExecuting)
                    ELSE facade
       /\ calls' = [calls EXCEPT !.fault = @ + (IF f = "none" THEN 0 ELSE 1)]
       /\ last' = [NoLast EXCEPT
                     !.op = "undo", !.res = o.res, !.cmd = inflight.cmd,
                     !.applied = o.applied, !.rollbackFailed = (f = "rollback"),
                     !.clean = inflight.clean, !.putFailed = o.putFailed,
                     !.daysBefore = IF o.putFailed THEN <<ViewAll(days)>> ELSE <<>>,
                     !.threw = (f = "mutation"),
                     !.before = IF o.res = "ok" /\ ~o.putFailed THEN <<>>
                                ELSE inflight.before]
       /\ law' = LawNext("undo", ok, days, o.days)
       /\ milk' = MilkNext("undo", ok, Undefined, Undefined, NoDay)
       /\ burst' = BurstNext("undo", ok, Undefined, FALSE, NoDay, 0)
       /\ reord' = ReordNext("undo", ok, Undefined, FALSE, NoDay, 0)
       /\ run' = RunNext("undo", ok, Undefined, FALSE, FALSE)
       /\ heard' = Heard("undo", o.res = "ok", o.notified)
       /\ isExecuting' = Finally(o.res, f)
       /\ pair' = PairNext("undo", ok, Undefined, FALSE, 0)
       /\ trip' = TripNext("undo", ok, inflight.before[1])
  /\ inflight' = NoInflight
  /\ refused' = NoRefused
  /\ sw' = NoSwitch
  /\ UNCHANGED <<nextCmdId, now, configVars, hasManager, managerVars, currentDateKey,
                 maxHistorySize, loadPending>>

\* redo() up to its first await
RedoBegin ==
  /\ hasManager
  /\ Settled
  /\ Len(redoStack) # 0 /\ ~isExecuting
  /\ calls.redo < workload.redo
  /\ LET command == Top(redoStack) IN
       /\ inflight' = [NoInflight EXCEPT !.op = "redo", !.cmd = <<command>>,
                                         !.run = <<command>>,
                                         !.clean = (loadPending = <<>>),
                                         !.before = StacksNow]
       /\ redoStack' = Front(redoStack)
       /\ undoStack' = IF enableOptimisticUpdates THEN undoStack
                       ELSE Push(undoStack, command)
  /\ isExecuting' = TRUE
  /\ calls' = [calls EXCEPT !.redo = @ + 1]
  /\ last' = NoLast
  /\ refused' = NoRefused
  /\ sw' = NoSwitch
  /\ heard' = NoHeard
  /\ UNCHANGED <<days, nextId, nextCmdId, now, configVars, storeVars,
                 hasManager, managerVars,
                 currentDateKey, maxHistorySize, loadPending, facade, observers>>

RedoOutcome(f) ==
  LET c == inflight.cmd[1]
      throws == c.type = "undefined" \/ f = "mutation"
      back == MoveTop(undoStack, redoStack)
      failed == [days |-> days, nid |-> nextId, undo |-> back.from, redo |-> back.to,
                 st |-> Store, res |-> "CommandExecutionError", putFailed |-> FALSE,
                 notified |-> FALSE, applied |-> 0]
  IN
  IF throws THEN failed
  ELSE
  LET ex    == ExecuteCalls(c, days[c.dateKey], nextId)
      c1    == ex.cmd
      days1 == [days EXCEPT ![c.dateKey] = ex.day]
      undo1 == IF enableOptimisticUpdates THEN Push(undoStack, c1)
               ELSE Alias(undoStack, c1)
      redo1 == Alias(redoStack, c1)
      sv    == saveHistory(Store, undo1, redo1, currentDateKey, maxHistorySize,
                           f # "open", f # "put")
      rb    == UndoCmd(c1, ex.day, ex.nid)      \* undo the redo to roll back
      back1 == MoveTop(undo1, redo1)
  IN
  IF ~sv.threw
  THEN [days |-> days1, nid |-> ex.nid, undo |-> undo1, redo |-> redo1,
        st |-> sv.st, res |-> "ok", putFailed |-> sv.putFailed, notified |-> TRUE,
        applied |-> ex.calls]
  ELSE IF enableOptimisticUpdates /\ f = "rollback"
  THEN \* command.undo() throws: logged, the stacks stay as they are
       [days |-> days1, nid |-> ex.nid, undo |-> undo1, redo |-> redo1,
        st |-> sv.st, res |-> "CommandExecutionError", putFailed |-> sv.putFailed,
        notified |-> FALSE, applied |-> ex.calls]
  ELSE IF enableOptimisticUpdates
  THEN [days |-> [days EXCEPT ![c.dateKey] = rb.day], nid |-> rb.nid,
        undo |-> back1.from, redo |-> back1.to,
        st |-> sv.st, res |-> "CommandExecutionError", putFailed |-> sv.putFailed,
        notified |-> TRUE, applied |-> ex.calls]
  ELSE [days |-> days1, nid |-> ex.nid, undo |-> back1.from, redo |-> back1.to,
        st |-> sv.st, res |-> "CommandExecutionError", putFailed |-> sv.putFailed,
        notified |-> FALSE, applied |-> ex.calls]

RedoComplete ==
  /\ inflight.op = "redo"
  /\ \E f \in {"none"} \cup (IF inflight.cmd[1].type = "undefined" THEN {}
                             ELSE MutationFaults \cup SaveFaults
                                    \cup RollbackFaults(RedoOutcome("none"))) :
     \E o \in {RedoOutcome(f)} :
       LET ok == o.res = "ok" /\ inflight.clean IN
       /\ days' = o.days
       /\ nextId' = o.nid
       /\ undoStack' = o.undo
       /\ redoStack' = o.redo
       /\ SetStore(o.st)
       /\ facade' = IF o.notified THEN updateState(o.undo, o.redo, isExecuting)
                    ELSE facade
       /\ calls' = [calls EXCEPT !.fault = @ + (IF f = "none" THEN 0 ELSE 1)]
       /\ last' = [NoLast EXCEPT
                     !.op = "redo", !.res = o.res, !.cmd = inflight.cmd,
                     !.applied = o.applied, !.rollbackFailed = (f = "rollback"),
                     !.clean = inflight.clean, !.putFailed = o.putFailed,
                     !.daysBefore = IF o.putFailed THEN <<ViewAll(days)>> ELSE <<>>,
                     !.threw = (f = "mutation"),
                     !.before = IF o.res = "ok" /\ ~o.putFailed THEN <<>>
                                ELSE inflight.before]
       /\ law' = LawNext("redo", ok, days, o.days)
       /\ milk' = MilkNext("redo", ok, Undefined, Undefined, NoDay)
       /\ burst' = BurstNext("redo", ok, Undefined, FALSE, NoDay, 0)
       /\ reord' = ReordNext("redo", ok, Undefined, FALSE, NoDay, 0)
       /\ run' = RunNext("redo", ok, Undefined, FALSE, FALSE)
       /\ heard' = Heard("redo", o.res = "ok", o.notified)
       /\ isExecuting' = Finally(o.res, f)
       /\ pair' = PairNext("redo", ok, Undefined, FALSE, 0)
       /\ trip' = TripNext("redo", ok, inflight.before[1])
  /\ inflight' = NoInflight
  /\ refused' = NoRefused
  /\ sw' = NoSwitch
  /\ UNCHANGED <<nextCmdId, now, configVars, hasManager, managerVars, currentDateKey,
                 maxHistorySize, loadPending>>

Next ==
  \/ GetHistoryManager
  \/ AddListener
  \/ LoadComplete
  \/ SwitchDate
  \/ ClearHistory
  \/ ExecuteCommandBusy
  \/ ExecuteCommandBegin
  \/ ExecuteCommandComplete
  \/ UndoRefused
  \/ RedoRefused
  \/ UndoBegin
  \/ UndoComplete
  \/ RedoBegin
  \/ RedoComplete

Spec == Init /\ [][Next]_vars

\* the resumption of a suspended call: the step of ExecuteCommandComplete,
\* UndoComplete or RedoComplete, the only steps that end a call in flight
Resume(op) == inflight.op = op /\ inflight' = NoInflight

\* the awaited mutation and store calls of a suspended executeCommand, undo or
\* redo settle, and the event loop then resumes the call
LiveSpec ==
  /\ Spec
  /\ WF_inflight(Resume("execute"))
  /\ WF_inflight(Resume("undo"))
  /\ WF_inflight(Resume("redo"))

\* ================================================================ claims
\* no executeCommand, undo or redo is suspended
Idle == inflight.op = "none"

\* the stored checklist order of a day, as ids
StoredOrder(dateKey) == Ids(getDayData(days[dateKey]).checklist)

\* the (completed) flags of the items of a day whose text is text
Completed(dateKey, text) ==
  {days[dateKey].checklist[i].completed :
     i \in {j \in DOMAIN days[dateKey].checklist : days[dateKey].checklist[j].text = text}}

\* C1: after executeCommand(c); undo(); redo() the day records show the same
\* notes and checklist items (content, completed flags, order) as right
\* after executeCommand(c)
RedoRestoresExecuted == (Idle /\ law.phase = 3) => ViewAll(days) = law.post[1]

\* C2: after executeCommand(c); undo() the day records show the same notes
\* and checklist items, in the same order, as before executeCommand(c)
UndoRestoresSnapshot == (Idle /\ law.phase = 2) => ViewAll(days) = law.pre[1]

\* C3: add "Buy milk", toggle it, undo: the item is present and incomplete;
\* undo again: it is absent; redo twice: it is present and complete
MilkScenario ==
  /\ (Idle /\ milk.phase = 3) => Completed(milk.date, "Buy milk") = {FALSE}
  /\ (Idle /\ milk.phase = 4) => Completed(milk.date, "Buy milk") = {}
  /\ (Idle /\ milk.phase = 6) => Completed(milk.date, "Buy milk") = {TRUE}

\* C4: when the durable store rejects the write of executeCommand while the
\* mutation succeeded, the call rejects with a PersistenceError and the day
\* records are as before the call
PutFailureRollsBack ==
  (last.op = "execute" /\ last.clean /\ last.putFailed) =>
     /\ last.res = "PersistenceError"
     /\ ViewAll(days) = last.daysBefore[1]

\* C5 (as stated): a successful executeCommand issued right after an undo
\* that left the redo stack non-empty leaves the redo stack empty
ExecuteClearsRedo ==
  (/\ last.op = "execute" /\ last.res = "ok" /\ last.clean
   /\ last.afterUndo /\ last.redoLenBefore > 0)
     => Len(redoStack) = 0

\* C5 (amended): a successful executeCommand that starts with a non-empty
\* redo stack and is not merged with the top of the undo stack leaves the
\* redo stack empty
UnmergedExecuteClearsRedo ==
  (/\ last.op = "execute" /\ last.res = "ok" /\ last.clean
   /\ ~last.merged /\ last.redoLenBefore > 0)
     => Len(redoStack) = 0

UnmergedExecuteAfterUndo ==
  /\ last.op = "execute" /\ last.res = "ok" /\ last.clean
  /\ ~last.merged /\ last.afterUndo /\ last.redoLenBefore > 0
  /\ Len(redoStack) = 0 /\ Len(undoStack) > 0

\* C6: the undo stack of a manager never holds more than its maxHistorySize
\* entries
UndoStackWithinMax == hasManager => Len(undoStack) <= maxHistorySize

\* C7: maxHistorySize + 1 commands pushed one after the other on an empty
\* history leave the undo stack holding the last maxHistorySize of them, in
\* execution order
OldestEvictedFirst ==
  (Idle /\ hasManager /\ Len(run) = maxHistorySize + 1) => Ids(undoStack) = Tail(run)

CapacityExceeded ==
  /\ Idle /\ hasManager /\ Len(run) = maxHistorySize + 1
  /\ Ids(undoStack) = Tail(run)
  /\ Len(undoStack) = maxHistorySize

\* C8: the entry a merge puts on top of the undo stack has the
\* predecessor's old text / old order, the submitted command's new text /
\* new order and the submitted command's timestamp
MergeKeepsBeforeAndAfter ==
  (last.op = "execute" /\ last.res = "ok" /\ last.clean /\ last.merged) =>
     /\ Top(undoStack).oldText = last.pred[1].oldText
     /\ Top(undoStack).oldOrder = last.pred[1].oldOrder
     /\ Top(undoStack).newText = last.cmd[1].newText
     /\ Top(undoStack).newOrder = last.cmd[1].newOrder
     /\ Top(undoStack).timestamp = last.cmd[1].timestamp

\* C9: three edits of one note, each less than 200 ms after the previous
\* one, add exactly one entry to the undo stack, and one undo gives the note
\* the content it had before the first edit
EditBurstIsOneStep ==
  /\ (Idle /\ burst.phase = 3) => Len(undoStack) = burst.len0 + 1
  /\ (Idle /\ burst.phase = 4) => NoteContent(days[burst.date], burst.id) = <<burst.pre>>

\* C10: with stored order A, B, C, a reorder to C, A, B and a reorder to
\* B, C, A less than 500 ms later leave the stored order B, C, A and one undo
\* entry for both, and one undo restores the stored order A, B, C
ReorderBurstIsOneStep ==
  /\ (Idle /\ reord.phase = 2) =>
       /\ StoredOrder(reord.date) = <<reord.abc[2], reord.abc[3], reord.abc[1]>>
       /\ Len(undoStack) = reord.len0 + 1
  /\ (Idle /\ reord.phase = 3) => StoredOrder(reord.date) = reord.abc

\* the text of a note or checklist item: <<>> when it is not in the record
TextOf(dateKey, type, id) ==
  LET d == days[dateKey] IN
  IF type = "edit-note" THEN NoteContent(d, id)
  ELSE LET i == FindIndex(d.checklist, id)
       IN  IF i = 0 THEN <<>> ELSE <<d.checklist[i].text>>

\* C11 (as stated): two consecutive text edits of one item, created D ms
\* apart, add one undo entry in total exactly when D < mergeTimeWindow;
\* otherwise they add two entries, and two undos give the item the text it
\* had before the first edit
MergeIffWithinWindow ==
  /\ (Idle /\ pair.phase = 2) =>
       /\ (Len(undoStack) = pair.len0 + 1) <=> (pair.delta < MERGE_TIME_WINDOW)
       /\ (pair.delta >= MERGE_TIME_WINDOW) => Len(undoStack) = pair.len0 + 2
  /\ (Idle /\ pair.phase = 4 /\ pair.delta >= MERGE_TIME_WINDOW) =>
       TextOf(pair.date, pair.type, pair.id) = <<pair.pre>>

\* C11 (amended): the same, when the undo stack has room for two more
\* entries before the first edit
MergeIffWithinWindowWithRoom ==
  /\ (Idle /\ pair.phase = 2 /\ pair.len0 + 2 <= maxHistorySize) =>
       /\ (Len(undoStack) = pair.len0 + 1) <=> (pair.delta < MERGE_TIME_WINDOW)
       /\ (pair.delta >= MERGE_TIME_WINDOW) => Len(undoStack) = pair.len0 + 2
  /\ (Idle /\ pair.phase = 4 /\ pair.delta >= MERGE_TIME_WINDOW
         /\ pair.len0 + 2 <= maxHistorySize) =>
       TextOf(pair.date, pair.type, pair.id) = <<pair.pre>>

TwoEditsTwoUndos ==
  /\ Idle /\ pair.phase = 4 /\ pair.delta = MERGE_TIME_WINDOW
  /\ pair.len0 + 2 <= maxHistorySize
  /\ TextOf(pair.date, pair.type, pair.id) = <<pair.pre>>

\* C12: when the forward mutation throws during executeCommand, the call
\* rejects with a CommandExecutionError and both stacks are as they were
\* before the call, with and without optimistic updates
ExecuteFailureKeepsStacks ==
  (last.op = "execute" /\ last.clean /\ last.threw) =>
     /\ last.res = "CommandExecutionError"
     /\ undoStack = last.before[1].undo
     /\ redoStack = last.before[1].redo

\* C13: when the inverse mutation throws during undo, or the forward
\* mutation during redo, the call rejects with a CommandExecutionError and
\* both stacks are exactly as before the call
UndoRedoFailureKeepsStacks ==
  (last.op \in {"undo", "redo"} /\ last.clean /\ last.threw) =>
     /\ last.res = "CommandExecutionError"
     /\ undoStack = last.before[1].undo
     /\ redoStack = last.before[1].redo

\* C14: when the durable store rejects the write of undo or redo after the
\* mutation was applied, the call rejects with a PersistenceError, the day
\* records are as before the call and so are both stacks
UndoRedoPutFailureRollsBack ==
  (last.op \in {"undo", "redo"} /\ last.clean /\ last.putFailed) =>
     /\ last.res = "PersistenceError"
     /\ ViewAll(days) = last.daysBefore[1]
     /\ undoStack = last.before[1].undo
     /\ redoStack = last.before[1].redo

\* C17: after a successful executeCommand, undo or redo has completed (the
\* manager is idle and has notified its listeners), the hook's canUndo says
\* whether the undo stack is non-empty and its canRedo whether the redo
\* stack is non-empty; after a successful executeCommand canUndo is true
FacadeReflectsStacks ==
  (/\ Idle /\ ~isExecuting /\ last.op \in {"execute", "undo", "redo"}
   /\ last.res = "ok" /\ last.clean) =>
     /\ facade.canUndo = (Len(undoStack) > 0)
     /\ facade.canRedo = (Len(redoStack) > 0)
     /\ last.op = "execute" => facade.canUndo

\* C15: executeCommand, undo or redo called while isExecuting is true ends
\* at once (executeCommand with a busy error, undo and redo with false),
\* changes neither stack nor the day records, and leaves isExecuting true
\* and the suspended operation as it was
BusyCallChangesNothing ==
  [][(isExecuting /\ refused'.op # "none" /\ refused' # refused) =>
       /\ refused'.res = (IF refused'.op = "execute" THEN "UndoRedoError" ELSE "false")
       /\ undoStack' = undoStack /\ redoStack' = redoStack /\ days' = days
       /\ inflight' = inflight
       /\ isExecuting']_vars

BusyExecuteRefused ==
  /\ refused.op = "execute" /\ refused.busy /\ refused.res = "UndoRedoError"
  /\ isExecuting /\ inflight.op # "none"

\* C18: undo() with an empty undo stack, and redo() with an empty redo
\* stack, return false and change neither the stacks, nor the day records,
\* nor the persisted history, and no listener runs (the hook's state is
\* not refreshed)
EmptyStackCallIsNoOp ==
  [][(~isExecuting /\ refused'.op \in {"undo", "redo"} /\ refused' # refused) =>
       /\ refused'.res = "false" /\ refused'.empty
       /\ undoStack' = undoStack /\ redoStack' = redoStack /\ days' = days
       /\ historyDb' = historyDb /\ fallbackHistoryStorage' = fallbackHistoryStorage
       /\ facade' = facade]_vars

UndoOnEmptyStackRefused ==
  /\ refused.op = "undo" /\ refused.empty /\ ~refused.busy /\ refused.res = "false"
  /\ ~isExecuting /\ Len(undoStack) = 0 /\ Len(redoStack) > 0
  /\ historyDb[currentDateKey] # <<>>

\* C16: at most one of executeCommand, undo, redo and clearHistory runs at
\* a time on a manager: while one of the first three is suspended,
\* clearHistory does not get to modify the stacks
NoInterleavedClear ==
  [][(inflight.op # "none" /\ calls'.clear # calls.clear) =>
       (undoStack' = undoStack /\ redoStack' = redoStack)]_vars

\* the record getPersistedHistory reads for a key when the store answers
PersistedRecord(dateKey) ==
  IF isHistoryDBAvailable THEN historyDb[dateKey] ELSE fallbackHistoryStorage[dateKey]

Reconstructible(e) == e.type \in CatalogTypes /\ ~FromSerializedThrows(e)

\* id and type of the entries of a stack, in order
IdsAndTypes(stack) == [i \in DOMAIN stack |-> <<stack[i].id, stack[i].type>>]

\* C20: after loadHistory has read a record, each stack holds exactly the
\* entries of the persisted stack whose type is a catalog type and whose
\* reconstruction does not throw, in the same order; the other entries are
\* dropped and the load neither fails nor empties the stack
HydrationKeepsGoodEntries ==
  (last.op = "load" /\ last.res = "ok" /\ PersistedRecord(currentDateKey) # <<>>) =>
     LET rec == PersistedRecord(currentDateKey)[1] IN
     /\ IdsAndTypes(undoStack) = IdsAndTypes(SelectSeq(rec.undoStack, Reconstructible))
     /\ IdsAndTypes(redoStack) = IdsAndTypes(SelectSeq(rec.redoStack, Reconstructible))

HydratedAroundBadEntries ==
  /\ last.op = "load" /\ last.res = "ok" /\ PersistedRecord(currentDateKey) # <<>>
  /\ LET saved == PersistedRecord(currentDateKey)[1].undoStack IN
       /\ \E i \in DOMAIN saved : saved[i].type \notin CatalogTypes
       /\ \E i \in DOMAIN saved : FromSerializedThrows(saved[i])
       /\ Len(undoStack) = 1 /\ Len(saved) = 3
       /\ undoStack[1].id = saved[2].id

\* C21: after clearHistory() has completed, both stacks are empty and the
\* store's record for the current date key has an empty undoStack and an
\* empty redoStack
ClearHistoryPersistsEmpty ==
  (heard.op = "clear") =>
     /\ undoStack = <<>> /\ redoStack = <<>>
     /\ PersistedRecord(currentDateKey) # <<>>
     /\ PersistedRecord(currentDateKey)[1].undoStack = <<>>
     /\ PersistedRecord(currentDateKey)[1].redoStack = <<>>

PutFailureIsReported ==
  (last.op \in {"execute", "undo", "redo"} /\ last.putFailed) => last.res # "ok"

\* C24: once opening the durable store has failed, isHistoryDBAvailable
\* stays false, the durable store is neither opened nor written again, every
\* later save of a successful operation goes to the in-memory map and every
\* later load reads the in-memory map
FallbackIsPermanent ==
  [][~isHistoryDBAvailable =>
       /\ ~isHistoryDBAvailable'
       /\ historyDbInstance' = historyDbInstance
       /\ historyDb' = historyDb
       /\ (/\ enablePersistence
           /\ \/ inflight.op # "none" /\ inflight'.op = "none" /\ last'.res = "ok"
              \/ calls'.clear # calls.clear) =>
            fallbackHistoryStorage'[currentDateKey] =
              <<HistoryState(undoStack', redoStack', currentDateKey, maxHistorySize)>>
       /\ (enablePersistence /\ hasManager /\ currentDateKey' # currentDateKey
             /\ globalHistoryManager' = globalHistoryManager) =>
            fallbackHistoryStorage'[currentDateKey] =
              <<HistoryState(undoStack, redoStack, currentDateKey, maxHistorySize)>>
       /\ (enablePersistence /\ \/ currentDateKey' # currentDateKey
                                \/ globalHistoryManager' # globalHistoryManager) =>
            /\ loadPending' = <<>>
            /\ undoStack' = Hydrate(fallbackHistoryStorage'[currentDateKey']).undo
            /\ redoStack' = Hydrate(fallbackHistoryStorage'[currentDateKey']).redo]_vars

SavedToFallbackAfterOpenFailure ==
  /\ ~isHistoryDBAvailable /\ ~historyDbInstance /\ enablePersistence
  /\ last.op = "execute" /\ last.res = "ok"
  /\ fallbackHistoryStorage[currentDateKey] =
       <<HistoryState(undoStack, redoStack, currentDateKey, maxHistorySize)>>
  /\ Len(undoStack) > 0
  /\ historyDb[currentDateKey] = <<>>

\* C25: two hooks whose effects last ran for the same date key hold the same
\* manager instance
OneManagerPerDateKey ==
  \A h1, h2 \in Hooks :
     (/\ historyManagerRef[h1].mgr # 0 /\ historyManagerRef[h2].mgr # 0
      /\ historyManagerRef[h1].key = historyManagerRef[h2].key) =>
        historyManagerRef[h1].mgr = historyManagerRef[h2].mgr

\* C26: a reorder-checklist command submitted when the top of the undo
\* stack is a reorder-checklist command created 500 ms or more before it is
\* not merged: it becomes an undo entry of its own, on top of the earlier one
ReorderApartNotMerged ==
  (/\ last.op = "execute" /\ last.res = "ok" /\ last.clean
   /\ last.cmd[1].type = "reorder-checklist"
   /\ last.before[1].undo # <<>>
   /\ Top(last.before[1].undo).type = "reorder-checklist"
   /\ last.cmd[1].timestamp - Top(last.before[1].undo).timestamp >= REORDER_WINDOW) =>
     /\ ~last.merged
     /\ Len(undoStack) > 0 /\ Top(undoStack).id = last.cmd[1].id
     /\ Len(last.before[1].undo) < maxHistorySize =>
          /\ Len(undoStack) = Len(last.before[1].undo) + 1
          /\ undoStack[Len(undoStack) - 1].id = Top(last.before[1].undo).id

\* C27: an executeCommand whose save failed and whose compensating undo then
\* failed as well has rejected with an error, never settled as successful,
\* and has left the manager idle
RollbackFailureStillRejects ==
  (last.op = "execute" /\ last.rollbackFailed) =>
     /\ last.res = "PersistenceError"
     /\ ~isExecuting
     /\ inflight.op = "none"

RollbackFailedEntryKept ==
  /\ last.op = "execute" /\ last.rollbackFailed
  /\ last.res = "PersistenceError" /\ ~isExecuting
  /\ enableOptimisticUpdates /\ last.applied = 1
  /\ Len(undoStack) > 0 /\ Top(undoStack).id = last.cmd[1].id
  /\ ~heard.ok /\ heard.invoked = <<>>

\* C28: whenever executeCommand, undo or redo has set isExecuting, the
\* manager is later idle again (isExecuting false), whatever the outcome of
\* the mutation, the save and the rollback
ExecutingLeadsToIdle == isExecuting ~> ~isExecuting

IdleAfterFailedUndo ==
  /\ last.op = "undo" /\ last.threw /\ last.res = "CommandExecutionError"
  /\ ~isExecuting /\ inflight.op = "none"

\* C29: an executeCommand, undo or redo that has succeeded has called the
\* command's mutation exactly once, merging or pushing, optimistic or not;
\* an add command that has succeeded has added exactly one note or item
AppliedExactlyOnce ==
  /\ (last.op \in {"execute", "undo", "redo"} /\ last.res = "ok") => last.applied = 1
  /\ (/\ last.op = "execute" /\ last.res = "ok" /\ law.phase = 1
      /\ last.cmd[1].type = "add-note") =>
        Len(law.post[1][last.cmd[1].dateKey].notes)
          = Len(law.pre[1][last.cmd[1].dateKey].notes) + 1
  /\ (/\ last.op = "execute" /\ last.res = "ok" /\ law.phase = 1
      /\ last.cmd[1].type = "add-checklist-item") =>
        Len(law.post[1][last.cmd[1].dateKey].checklist)
          = Len(law.pre[1][last.cmd[1].dateKey].checklist) + 1

MergedAppliedOnceWhenNotOptimistic ==
  /\ last.op = "execute" /\ last.res = "ok" /\ last.merged
  /\ ~enableOptimisticUpdates /\ last.applied = 1

\* C30: a successful executeCommand that merged has replaced the top entry of
\* the undo stack and left its length and every entry below the top as they
\* were; one that did not merge has put the command on top and left the
\* earlier entries as they were, minus the oldest when the stack was full
MergeTouchesOnlyTop ==
  (last.op = "execute" /\ last.clean) =>
     LET b == last.before[1].undo
     IN  /\ last.merged =>
              /\ Len(undoStack) = Len(b)
              /\ \A i \in 1 .. Len(b) - 1 : undoStack[i] = b[i]
              /\ last.res = "ok" =>
                   /\ Top(undoStack).id # Top(b).id
                   /\ Top(undoStack).id # last.cmd[1].id
         /\ (~last.merged /\ last.res = "ok") =>
              /\ Len(undoStack) > 0
              /\ Top(undoStack).id = last.cmd[1].id
              /\ Front(undoStack) = IF Len(b) < maxHistorySize THEN b ELSE Tail(b)

MergedAboveOlderEntry ==
  /\ last.op = "execute" /\ last.res = "ok" /\ last.clean /\ last.merged
  /\ Len(undoStack) = 2 /\ Len(last.before[1].undo) = 2
  /\ undoStack[1] = last.before[1].undo[1]
  /\ undoStack[2].id # last.before[1].undo[2].id

\* the types whose classes inherit BaseCommand.merge
Unmergeable ==
  {"add-note", "delete-note", "add-checklist-item", "delete-checklist-item",
   "toggle-checklist-item"}

\* C31: a successful executeCommand of an add, delete or toggle command has
\* not merged: the command is the new top of the undo stack, above the
\* entries that were there (minus the oldest when the stack was full),
\* whatever the type, date key and timestamp of the entry below it
AddDeleteToggleAlwaysPush ==
  (/\ last.op = "execute" /\ last.res = "ok" /\ last.clean
   /\ last.cmd[1].type \in Unmergeable) =>
     LET b == last.before[1].undo
     IN  /\ ~last.merged
         /\ Len(undoStack) > 0
         /\ Top(undoStack).id = last.cmd[1].id
         /\ Top(undoStack).type = last.cmd[1].type
         /\ Front(undoStack) = IF Len(b) < maxHistorySize THEN b ELSE Tail(b)

PushedRightAfterSameType ==
  /\ last.op = "execute" /\ last.res = "ok" /\ last.clean
  /\ last.cmd[1].type = "toggle-checklist-item"
  /\ Len(last.before[1].undo) = 1 /\ maxHistorySize = 2
  /\ Top(last.before[1].undo).type = last.cmd[1].type
  /\ Top(last.before[1].undo).dateKey = last.cmd[1].dateKey
  /\ Top(last.before[1].undo).targetId = last.cmd[1].targetId
  /\ last.cmd[1].timestamp - Top(last.before[1].undo).timestamp < MERGE_TIME_WINDOW
  /\ Len(undoStack) = 2 /\ ~last.merged

\* C32: after a successful executeCommand of an edit the stored text of the
\* note or item is the command's new text, and after one of a reorder the
\* stored checklist order is the command's new order, merged or pushed
ExecuteAppliesCommand ==
  (last.op = "execute" /\ last.res = "ok" /\ last.clean /\ Idle) =>
     LET cmd == last.cmd[1]
     IN  /\ cmd.type \in {"edit-note", "edit-checklist-item"} =>
              TextOf(cmd.dateKey, cmd.type, cmd.targetId) = <<cmd.newText>>
         /\ cmd.type = "reorder-checklist" => StoredOrder(cmd.dateKey) = cmd.newOrder

\* C33: on a manager that has just been created (no change of date, no
\* clearHistory, no undo so far) a command whose executeCommand has succeeded
\* without merging is the top of the undo stack once the call has returned,
\* whenever the constructor's loadHistory completes
ExecutedCommandStays ==
  (/\ calls.mgr = 1 /\ calls.clear = 0 /\ calls.undo = 0
   /\ last.op = "execute" /\ last.res = "ok" /\ ~last.merged /\ Idle) =>
     /\ Len(undoStack) > 0
     /\ Top(undoStack).id = last.cmd[1].id

\* C34: every command on the undo stack and on the redo stack carries the
\* manager's current date key
StacksHoldCurrentDateOnly ==
  hasManager =>
    /\ \A i \in DOMAIN undoStack :
         undoStack[i].type # "undefined" => undoStack[i].dateKey = currentDateKey
    /\ \A i \in DOMAIN redoStack :
         redoStack[i].type # "undefined" => redoStack[i].dateKey = currentDateKey

\* C35: with persistence enabled, when the manager is idle after a successful
\* executeCommand, undo, redo or clearHistory, a read of the history record of
\* the current date key returns the serialization of the stacks in memory,
\* entry by entry (no record at all counting as two empty stacks), also when
\* the durable put of the save had failed
ReadReturnsStacksInMemory ==
  (/\ enablePersistence /\ hasManager /\ Idle /\ loadPending = <<>>
   /\ \/ last.op \in {"execute", "undo", "redo"} /\ last.res = "ok"
      \/ heard.op = "clear" /\ heard.ok) =>
     \E r \in {getPersistedHistory(Store, currentDateKey, TRUE, TRUE).state} :
        IF r = <<>> THEN undoStack = <<>> /\ redoStack = <<>>
        ELSE /\ r[1].undoStack = SerializeStack(undoStack)
             /\ r[1].redoStack = SerializeStack(redoStack)

\* C36: when executeCommand has been rolled back after its save failed, the
\* undo stack and the redo stack are what they were when the call began
RollbackRestoresStacks ==
  (/\ last.op = "execute" /\ last.res = "PersistenceError" /\ ~last.rollbackFailed
   /\ last.clean /\ Idle) =>
     /\ undoStack = last.before[1].undo
     /\ redoStack = last.before[1].redo

\* the ids in an order of the checklist, as a set
ItemSet(order) == {order[i] : i \in DOMAIN order}

\* C37: after a successful executeCommand of a reorder-checklist command the
\* checklist holds the items it held before (those the command captured as
\* its old order), and so it does after the undo that follows
ReorderKeepsItems ==
  /\ (/\ last.op = "execute" /\ last.res = "ok" /\ last.clean /\ Idle
      /\ last.cmd[1].type = "reorder-checklist"
      /\ Len(undoStack) > 0 /\ Top(undoStack).type = "reorder-checklist") =>
        ItemSet(StoredOrder(last.cmd[1].dateKey)) = ItemSet(Top(undoStack).oldOrder)
  /\ (/\ last.op = "undo" /\ last.res = "ok" /\ last.clean /\ Idle /\ law.phase = 2
      /\ last.cmd[1].type = "reorder-checklist") =>
        ItemSet(StoredOrder(last.cmd[1].dateKey)) = ItemSet(last.cmd[1].oldOrder)


\* C38: when a sub-command of a BatchCommand throws during execute, the
\* sub-commands that ran before it are reverted: the failed executeCommand
\* leaves every day record as it was before the call
BatchFailureReverted ==
  (/\ last.op = "execute" /\ last.clean /\ last.threw
   /\ last.cmd[1].type = "batch"
   /\ last.daysBefore # <<>>) =>
     ViewAll(days) = last.daysBefore[1]


\* C39: successful undo calls followed by as many successful redo calls,
\* with the undo stack emptied in between, bring both stacks back to the
\* commands they held, in the same order; each undo moves the top entry of
\* the undo stack to the top of the redo stack, each redo the reverse
RoundTripRestoresStacks ==
  /\ (Idle /\ trip.back # <<>> /\ trip.back[1].low = 0) =>
        /\ StackIds(undoStack) = trip.back[1].undo
        /\ StackIds(redoStack) = trip.back[1].redo
  /\ (Idle /\ trip.op = "undo") =>
        /\ StackIds(undoStack) = Front(trip.prev[1].undo)
        /\ StackIds(redoStack) = Append(trip.prev[1].redo, Top(trip.prev[1].undo))
  /\ (Idle /\ trip.op = "redo") =>
        /\ StackIds(redoStack) = Front(trip.prev[1].redo)
        /\ StackIds(undoStack) = Append(trip.prev[1].undo, Top(trip.prev[1].redo))

\* two undos that emptied the undo stack and two redos have completed
TwoUndoneTwoRedone ==
  /\ Idle /\ trip.back # <<>> /\ trip.back[1].low = 0
  /\ Len(trip.back[1].undo) = 2 /\ trip.snaps = <<>>
  /\ Len(undoStack) = 2 /\ redoStack = <<>>

\* the same round trip, said to leave the redo stack empty whatever it held
RoundTripEmptiesRedo ==
  (Idle /\ trip.back # <<>> /\ trip.back[1].low = 0) =>
     /\ StackIds(undoStack) = trip.back[1].undo
     /\ redoStack = <<>>

====
